---- MODULE Spec2Model ----
(***************************************************************************)
(* Model of the LLM proxy (esp0r/llm-proxy-cf).                            *)
(*                                                                         *)
(* Three entry points are modelled:                                        *)
(*   - LLMProxyService.handleConversionRequest / handleStreamingRequest    *)
(*     (the /from-{source}/to-{target} worker),                            *)
(*   - handleClaudeToOpenRouter (the cross-provider stream re-framer),     *)
(*   - handleClaudeProxy (the same-provider Claude proxy), in its          *)
(*     streaming variant and in its earlier non-streaming variant.         *)
(*                                                                         *)
(* An upstream body is a sequence of symbols.  A symbol stands for a run   *)
(* of bytes that the code treats as a unit:                                *)
(*   "N"  the newline                       "D"  the marker 'data: '       *)
(*   "E"  the marker 'event: '              "W"  white space               *)
(*   "X"  the sentinel '[DONE]'             "m"  an event name             *)
(*   "{"  the opening of a JSON document, followed by one symbol that      *)
(*        stands for the rest of the document (see Decode); "{" alone is   *)
(*        a truncated document.                                            *)
(*   "t"  a text that is no JSON object and holds no marker                *)
(* A chunk of the body may end inside a marker: "D<" is the beginning of   *)
(* 'data: ' and ">D" the rest of it, and so for "E" and "X".               *)
(***************************************************************************)
EXTENDS Integers, Sequences, FiniteSets, TLC

\* ------------------------------------------------------------------ bounds

\* the longest upstream body the re-framer reads, in symbols
MaxBytes == 11

\* the longest upstream body a relay or a pass-through reads, in symbols
MaxRelayBytes == 8

\* the longest chunk one reader.read() returns, in symbols
MaxChunk == 5

\* the symbols two requests that are handled at a time read between them
MaxConcurrentBytes == 4

\* ----------------------------------------------------------- small helpers

Min(a, b) == IF a < b THEN a ELSE b

IsPrefix(p, s) == Len(p) <= Len(s) /\ SubSeq(s, 1, Len(p)) = p

Drop(s, n) == SubSeq(s, n + 1, Len(s))

\* String.prototype.split('\n'): the pieces between newlines, always at
\* least one piece (the last one is what follows the last newline).
RECURSIVE SplitLinesFrom(_, _, _)
SplitLinesFrom(s, i, cur) ==
  IF i > Len(s) THEN <<cur>>
  ELSE IF s[i] = "N" THEN <<cur>> \o SplitLinesFrom(s, i + 1, <<>>)
  ELSE SplitLinesFrom(s, i + 1, Append(cur, s[i]))

SplitLines(s) == SplitLinesFrom(s, 1, <<>>)

\* String.prototype.trim(): white space removed at both ends.
RECURSIVE TrimLeft(_)
TrimLeft(s) == IF s # <<>> /\ Head(s) = "W" THEN TrimLeft(Tail(s)) ELSE s

RECURSIVE TrimRight(_)
TrimRight(s) ==
  IF s # <<>> /\ s[Len(s)] = "W" THEN TrimRight(SubSeq(s, 1, Len(s) - 1)) ELSE s

Trim(s) == TrimRight(TrimLeft(s))

\* The markers, which are more than one byte long.
Markers == {"D", "E", "X"}

\* a + b of two runs of bytes: a marker that was cut in two is whole again.
Join(a, b) ==
  IF a # <<>> /\ b # <<>> /\ \E m \in Markers : a[Len(a)] = m \o "<" /\ b[1] = ">" \o m
  THEN SubSeq(a, 1, Len(a) - 1) \o << CHOOSE m \in Markers : b[1] = ">" \o m >> \o Tail(b)
  ELSE a \o b

\* line.startsWith('data: ') and line.startsWith('event: ')
StartsWithData(line) == line # <<>> /\ Head(line) = "D"

StartsWithEvent(line) == line # <<>> /\ Head(line) = "E"

\* ------------------------------------------------- the upstream body

\* The lines an OpenAI-compatible upstream may send in a streamed body
\* (without their newline): content fragments, finish chunks, a chunk that
\* carries a fragment and a finish_reason, a chunk without choices, the
\* sentinel, a truncated document, a white-space payload and the blank line
\* that separates events.
OpenAILines ==
  { <<"D", "{", "a">>, <<"D", "{", "b">>, <<"D", "{", "s">>, <<"D", "{", "l">>,
    <<"D", "{", "A">>, <<"D", "{", "e">>, <<"D", "X">>, <<"D", "{">>,
    <<"D", "W">>, <<>> }

\* The lines of a Claude event stream: an event line, a data line, a data
\* line with a white-space payload, a comment-like line and the blank line.
ClaudeLines ==
  { <<"E", "m">>, <<"D", "{", "a">>, <<"D", "W">>, <<"m">>, <<>> }

\* The lines of a body that is handed on unread: the same-provider stream of
\* handleStreamingRequest does not look at what it carries.
OpaqueLines == { <<"E", "m">>, <<"D", "{", "a">>, <<>> }

\* The chunks of at most n symbols that begin with the rest `pend` of a line
\* (or with its beginning) and go on with lines of the menu: a chunk
\* boundary may fall after any symbol, also inside a line.
RECURSIVE Ext(_, _, _)
Ext(menu, pend, n) ==
  LET within == { SubSeq(pend, 1, k) : k \in 1..Min(Len(pend), n) }
      beyond == IF Len(pend) < n
                THEN UNION { { pend \o c : c \in Ext(menu, Append(line, "N"), n - Len(pend)) } :
                             line \in menu }
                ELSE {}
  IN  within \cup beyond

\* What may follow the symbols `sofar` of a body made of lines of the menu:
\* the chunks of at most n symbols that go on with the line `sofar` ends in.
Continuations(menu, sofar, n) ==
  LET pieces  == SplitLines(sofar)
      partial == pieces[Len(pieces)]
  IN  UNION { Ext(menu, Drop(Append(line, "N"), Len(partial)), n) :
                line \in { l \in menu : IsPrefix(partial, l) } }

\* -------------------------------------------- the stream re-framer (part_001)

\* The documents JSON.parse accepts: "{" followed by one of these.
JsonDocs == {"a", "b", "s", "l", "A", "e", "r"}

JsonParses(data) == Len(data) = 2 /\ data[1] = "{" /\ data[2] \in JsonDocs

\* The parsed chunk: the number of choices, choices[0].delta.content and
\* choices[0].finish_reason ("" where the field is absent, null or empty:
\* the code only tests them for truthiness).
Decode(x) ==
  CASE x = "a" -> [choices |-> 1, content |-> "a", finish_reason |-> ""]
    [] x = "b" -> [choices |-> 1, content |-> "b", finish_reason |-> ""]
    [] x = "s" -> [choices |-> 1, content |-> "", finish_reason |-> "stop"]
    [] x = "l" -> [choices |-> 1, content |-> "", finish_reason |-> "length"]
    [] x = "A" -> [choices |-> 1, content |-> "a", finish_reason |-> "stop"]
    [] OTHER   -> [choices |-> 0, content |-> "", finish_reason |-> ""]

\* The names every object literal inherits from Object.prototype that hold
\* a function.
ObjectPrototypeFunctions ==
  {"constructor", "toString", "toLocaleString", "valueOf", "hasOwnProperty",
   "isPrototypeOf", "propertyIsEnumerable", "__defineGetter__",
   "__defineSetter__", "__lookupGetter__", "__lookupSetter__"}

\* A value that is a function, and the object Object.prototype itself.
FunctionValue == "[Function]"

PrototypeObject == "[Object: null prototype] {}"

\* The stop-reason table of convertOpenAIToClaude and
\* convertOpenAIStreamToClaude: `{...}[finishReason] || 'end_turn'`, a
\* property lookup on an object literal.  The lookup also finds what the
\* literal inherits: a function under the names of ObjectPrototypeFunctions
\* and Object.prototype under '__proto__', both truthy, so that the default
\* is not taken.  finishReason is `choice.finish_reason || 'stop'`.
StopReasonTable(finishReason) ==
  CASE finishReason = "" -> "end_turn"
    [] finishReason = "stop" -> "end_turn"
    [] finishReason = "length" -> "max_tokens"
    [] finishReason = "tool_calls" -> "tool_use"
    [] finishReason = "function_call" -> "tool_use"
    [] finishReason \in ObjectPrototypeFunctions -> FunctionValue
    [] finishReason = "__proto__" -> PrototypeObject
    [] OTHER -> "end_turn"

Event(type, text, stopReason) ==
  [type |-> type, text |-> text, stop_reason |-> stopReason]

NullChunk == Event("null", "", "")

\* convertOpenAIStreamToClaude: a fragment wins over a finish_reason; the
\* stop reason it looks up for a finish_reason is not part of what it returns.
convertOpenAIStreamToClaude(chunk) ==
  IF chunk.choices > 0
  THEN IF chunk.content # ""
       THEN Event("content_block_delta", chunk.content, "")
       ELSE IF chunk.finish_reason # ""
            THEN Event("message_stop", "", "")
            ELSE NullChunk
  ELSE NullChunk

\* The two events the ReadableStream's start() sends before the first read.
StartEvents ==
  << Event("message_start", "", ""), Event("content_block_start", "", "") >>

\* The three events sent on '[DONE]' and on a message_stop chunk.
TerminalEvents ==
  << Event("content_block_stop", "", ""),
     Event("message_delta", "", "end_turn"),
     Event("message_stop", "", "") >>

\* ProcessLine with a parse failure that ends the stream.
ProcessLineAbortOnError(line) ==
  IF StartsWithData(line) /\ Trim(Drop(line, 1)) # <<"X">>
     /\ ~JsonParses(Trim(Drop(line, 1)))
  THEN [sent |-> <<>>, closed |-> TRUE]
  ELSE IF StartsWithData(line)
  THEN LET data == Trim(Drop(line, 1)) IN
       IF data = <<"X">>
       THEN [sent |-> TerminalEvents, closed |-> TRUE]
       ELSE LET claudeChunk == convertOpenAIStreamToClaude(Decode(data[2])) IN
            IF claudeChunk.type = "content_block_delta"
            THEN [sent |-> <<claudeChunk>>, closed |-> FALSE]
            ELSE IF claudeChunk.type = "message_stop"
                 THEN [sent |-> TerminalEvents, closed |-> TRUE]
                 ELSE [sent |-> <<>>, closed |-> FALSE]
  ELSE [sent |-> <<>>, closed |-> FALSE]

\* One pass of `for (const line of lines)`: the events sent for one line and
\* whether the loop closed the controller and returned.
ProcessLine(line) ==
  IF StartsWithData(line)
  THEN LET data == Trim(Drop(line, 1)) IN
       IF data = <<"X">>
       THEN [sent |-> TerminalEvents, closed |-> TRUE]
       ELSE IF data # <<>> /\ JsonParses(data)
            THEN LET claudeChunk == convertOpenAIStreamToClaude(Decode(data[2])) IN
                 IF claudeChunk.type = "content_block_delta"
                 THEN [sent |-> <<claudeChunk>>, closed |-> FALSE]
                 ELSE IF claudeChunk.type = "message_stop"
                      THEN [sent |-> TerminalEvents, closed |-> TRUE]
                      ELSE [sent |-> <<>>, closed |-> FALSE]
            ELSE [sent |-> <<>>, closed |-> FALSE]
  ELSE [sent |-> <<>>, closed |-> FALSE]

\* ProcessLines without the `return` that follows controller.close(): the
\* lines after a terminal marker are processed too.
RECURSIVE ProcessLinesNoReturn(_, _)
ProcessLinesNoReturn(lines, i) ==
  IF i > Len(lines) THEN [sent |-> <<>>, closed |-> FALSE]
  ELSE LET one  == ProcessLine(lines[i])
           rest == ProcessLinesNoReturn(lines, i + 1)
       IN  [sent |-> one.sent \o rest.sent, closed |-> one.closed \/ rest.closed]

\* The for loop over the complete lines of one read.
RECURSIVE ProcessLines(_, _)
ProcessLines(lines, i) ==
  IF i > Len(lines) THEN [sent |-> <<>>, closed |-> FALSE]
  ELSE LET one == ProcessLine(lines[i]) IN
       IF one.closed THEN one
       ELSE LET rest == ProcessLines(lines, i + 1) IN
            [sent |-> one.sent \o rest.sent, closed |-> rest.closed]

\* The turn without the buffer: the chunk alone is split into lines, and
\* what follows its last newline is kept but not put before the next chunk.
ProcessChunkAlone(buf, chunk) ==
  LET lines == SplitLines(chunk)
      done  == ProcessLines(SubSeq(lines, 1, Len(lines) - 1), 1)
  IN  [buffer |-> lines[Len(lines)], sent |-> done.sent, closed |-> done.closed]

\* One turn of processStream's while loop on a chunk: buffer += chunk,
\* split, keep the last piece as the new buffer, process the others.
ProcessChunk(buf, chunk) ==
  LET lines == SplitLines(Join(buf, chunk))
      done  == ProcessLines(SubSeq(lines, 1, Len(lines) - 1), 1)
  IN  [buffer |-> lines[Len(lines)], sent |-> done.sent, closed |-> done.closed]

\* The same turn once the client has cancelled the stream, so that
\* controller.enqueue throws: the throw of a sendEvent made for a parsed
\* chunk is swallowed by the catch around JSON.parse and the loop goes on;
\* the throw of the sendEvent made for '[DONE]' reaches processStream's
\* catch, which ends the loop.
ProcessChunkCancelled(buf, chunk) ==
  LET lines    == SplitLines(Join(buf, chunk))
      complete == SubSeq(lines, 1, Len(lines) - 1)
  IN  [buffer |-> lines[Len(lines)],
       threw  |-> \E i \in 1..Len(complete) :
                    StartsWithData(complete[i]) /\ Trim(Drop(complete[i], 1)) = <<"X">>]

\* ------------------- handleClaudeProxy's relay of a streamed body (part_001)

\* One pass of the relay's `for (const line of lines)`: a data line with a
\* payload is sent as 'data: ' + payload + two newlines, an event line as
\* the line + one newline, anything else is not sent.
RelayLine(line) ==
  LET asData  == IF StartsWithData(line) /\ Trim(Drop(line, 1)) # <<>>
                 THEN <<"D">> \o Drop(line, 1) \o <<"N", "N">>
                 ELSE <<>>
      asEvent == IF StartsWithEvent(line) THEN Append(line, "N") ELSE <<>>
  IN  asData \o asEvent

RECURSIVE RelayLines(_, _)
RelayLines(lines, i) ==
  IF i > Len(lines) THEN <<>>
  ELSE RelayLine(lines[i]) \o RelayLines(lines, i + 1)

\* One turn of the relay's while loop: the chunk alone is split into lines
\* (nothing is kept from one read to the next) and every piece is relayed.
RelayChunk(chunk) == RelayLines(SplitLines(chunk), 1)

\* ------------------------------------------------------------ JSON values

\* An optional field is <<>> when absent and <<v>> when present.
Absent == <<>>

Some(v) == <<v>>

\* `x || d` on an optional number: an absent value and 0 both give d.
OrDefault(x, d) == IF x = Absent \/ x[1] = 0 THEN d ELSE x[1]

\* max_tokens: request.max_tokens || 4096
DefaultMaxTokens == 4096

\* temperature: request.temperature || 0.7, in tenths
DefaultTemperature == 7

\* A message content is a plain string or an array of content blocks.
Str(t) == [isArr |-> FALSE, text |-> t, blocks |-> <<>>]

Arr(bs) == [isArr |-> TRUE, text |-> "", blocks |-> bs]

TextBlock(t) ==
  [type |-> "text", text |-> t, tool_use_id |-> "", content |-> ""]

ToolUseBlock(id) ==
  [type |-> "tool_use", text |-> "", tool_use_id |-> id, content |-> ""]

ToolResultBlock(id, c) ==
  [type |-> "tool_result", text |-> "", tool_use_id |-> id, content |-> c]

Message(role, content) ==
  [role |-> role, content |-> content, tool_call_id |-> Absent]

\* A request body as the handlers see it.  kind is "object" for a JSON
\* object, "null" for the JSON document null, "array" for a JSON array,
\* number or boolean, "string" for a JSON string, and "text" for a body
\* that is not JSON.  Reading a field of null throws a TypeError; reading a
\* field of an array, a number, a boolean or a string gives undefined, so
\* every field of such a body is absent.  fmt is the body's formatting
\* ("spaced": white space between tokens, "compact": what JSON.stringify
\* writes).  extra holds the fields that are not part of the unified request
\* (such as system).
Body(model, messages, maxTokens, temperature, topP, stream, tools, extra, fmt) ==
  [kind |-> "object", model |-> model, messages |-> messages,
   max_tokens |-> maxTokens, temperature |-> temperature, top_p |-> topP,
   stream |-> stream, tools |-> tools, extra |-> extra, fmt |-> fmt]

\* The body `null`
NoBody == [Body(Absent, Absent, Absent, Absent, Absent, Absent, Absent, Absent, "compact")
             EXCEPT !.kind = "null"]

\* The body `[]`; the handlers treat the bodies `5`, `true` and `"x"` alike.
ArrayBody == [NoBody EXCEPT !.kind = "array"]

\* JSON.parse and JSON.stringify of a body: parsing fails on a body that is
\* not JSON; the parsed value has no formatting; stringify writes compactly.
JsonIsValid(body) == body.kind # "text"

JsonRoundTrip(body) == [body EXCEPT !.fmt = "compact"]

\* A function that may throw returns [threw, value].
Returned(v) == [threw |-> "", value |-> v]

Threw(e) == [threw |-> e, value |-> NoBody]

\* -------------------------------------------- transformers (transformers.ts)

\* AnthropicTransformer.transformRequestOut and
\* OpenRouterTransformer.transformRequestOut: the six fields of the unified
\* request are copied, whatever they hold; every other field is dropped.
\* Reading request.model throws a TypeError when request is null; a request
\* that is an array, a number, a boolean or a string gives six undefined
\* fields.
transformRequestOut(request) ==
  IF request.kind = "null" THEN Threw("TypeError")
  ELSE Returned(Body(request.model, request.messages, request.max_tokens,
                     request.temperature, Absent, request.stream, request.tools,
                     Absent, "compact"))

\* AnthropicTransformer.transformRequestIn: the unified request itself.
AnthropicTransformRequestIn(request) == Returned(request)

\* String.prototype.startsWith
StartsWith(str, prefix) ==
  Len(str) >= Len(prefix) /\ SubSeq(str, 1, Len(prefix)) = prefix

\* OpenRouterTransformer.mapModelName
OpenRouterMapModelName(model) ==
  IF ~StartsWith(model, "claude-") THEN model
  ELSE IF StartsWith(model, "claude-opus-4")
       THEN "anthropic/claude-opus-4"
       ELSE "anthropic/claude-sonnet-4"

\* The loop over the blocks with a tool_result that is appended to what was
\* collected so far.
RECURSIVE LowerBlocksAppending(_, _, _)
LowerBlocksAppending(blocks, i, acc) ==
  IF i > Len(blocks) THEN acc
  ELSE LET block == blocks[i] IN
       IF block.type = "text"
       THEN LowerBlocksAppending(blocks, i + 1,
              [acc EXCEPT !.content = acc.content \o block.text])
       ELSE IF block.type = "tool_result"
            THEN LowerBlocksAppending(blocks, i + 1,
                   [isToolResult |-> TRUE, tool_call_id |-> block.tool_use_id,
                    content |-> acc.content \o block.content])
            ELSE LowerBlocksAppending(blocks, i + 1, acc)

\* The for loop of OpenRouterTransformer.transformMessagesToOpenAI over the
\* blocks of one message: text blocks are concatenated; a tool_result block
\* replaces what was collected so far and marks the message a tool result.
RECURSIVE LowerBlocks(_, _, _)
LowerBlocks(blocks, i, acc) ==
  IF i > Len(blocks) THEN acc
  ELSE LET block == blocks[i] IN
       IF block.type = "text"
       THEN LowerBlocks(blocks, i + 1, [acc EXCEPT !.content = acc.content \o block.text])
       ELSE IF block.type = "tool_result"
            THEN LowerBlocks(blocks, i + 1,
                   [isToolResult |-> TRUE, tool_call_id |-> block.tool_use_id,
                    content |-> block.content])
            ELSE LowerBlocks(blocks, i + 1, acc)

\* transformMessagesToOpenAI on one message: a string content is kept as it
\* is; `content || message.content` keeps the array when the collected string
\* is empty.
LowerMessage(message) ==
  IF ~message.content.isArr THEN message
  ELSE LET acc == LowerBlocks(message.content.blocks, 1,
                    [isToolResult |-> FALSE, tool_call_id |-> "", content |-> ""])
       IN  IF acc.isToolResult
           THEN [role |-> "tool", content |-> Str(acc.content),
                 tool_call_id |-> Some(acc.tool_call_id)]
           ELSE [message EXCEPT !.content =
                   IF acc.content # "" THEN Str(acc.content) ELSE message.content]

\* OpenRouterTransformer.transformMessagesToOpenAI
transformMessagesToOpenAI(messages) ==
  [i \in 1..Len(messages) |-> LowerMessage(messages[i])]

\* OpenRouterTransformer.transformToolsToOpenAI, on the optional tools list
FunctionTool(tool) ==
  [type |-> "function",
   function |-> [name |-> tool.name, description |-> tool.description,
                 parameters |-> tool.input_schema]]

\* transformToolsToOpenAI with an empty list for a request without tools.
transformToolsToOpenAIOrEmpty(tools) ==
  IF tools = Absent THEN Some(<<>>)
  ELSE Some([i \in 1..Len(tools[1]) |-> FunctionTool(tools[1][i])])

transformToolsToOpenAI(tools) ==
  IF tools = Absent THEN Absent
  ELSE Some([i \in 1..Len(tools[1]) |-> FunctionTool(tools[1][i])])

\* OpenRouterTransformer.transformRequestIn.  mapModelName throws a
\* TypeError on a model that is absent (undefined has no startsWith), and
\* transformMessagesToOpenAI on messages that are absent.
OpenRouterTransformRequestIn(request) ==
  IF request.model = Absent \/ request.messages = Absent THEN Threw("TypeError")
  ELSE Returned(Body(Some(OpenRouterMapModelName(request.model[1])),
                     Some(transformMessagesToOpenAI(request.messages[1])),
                     Some(OrDefault(request.max_tokens, DefaultMaxTokens)),
                     Some(OrDefault(request.temperature, DefaultTemperature)),
                     request.top_p,
                     Some(request.stream = Some(TRUE)),
                     transformToolsToOpenAI(request.tools),
                     Absent, "compact"))

\* ------------------------------------------------------- response bodies

\* usage, with the field names of both providers; each field is optional.
Usage(promptTokens, completionTokens, inputTokens, outputTokens) ==
  [prompt_tokens |-> promptTokens, completion_tokens |-> completionTokens,
   input_tokens |-> inputTokens, output_tokens |-> outputTokens]

ClaudeUsage(i, o) == Usage(Absent, Absent, Some(i), Some(o))

\* `usage?.field || 0` on an optional usage
UsageField(usage, field) ==
  IF usage = Absent THEN 0 ELSE OrDefault(usage[1][field], 0)

\* One entry of choices: message.content and finish_reason ("" when absent
\* or null) and message.tool_calls.
Choice(content, finishReason, toolCalls) ==
  [content |-> content, finish_reason |-> finishReason, tool_calls |-> toolCalls]

ToolCall(type, id, name, arguments) ==
  [type |-> type, id |-> id, name |-> name, arguments |-> arguments]

\* A block of a response's content; text is itself a content value because
\* the transformers put whatever the unified content holds into it.
RespTextBlock(c) ==
  [type |-> "text", text |-> c, id |-> "", name |-> "",
   input |-> [parsed |-> "", raw_arguments |-> Absent]]

RespToolUseBlock(id, name, input) ==
  [type |-> "tool_use", text |-> Str(""), id |-> id, name |-> name, input |-> input]

\* A response body.  kind and fmt are as for a request body; every field of
\* the JSON object is optional, and a body of kind "string" is a JSON string
\* whose text is not itself JSON.
Doc(id, model, role, choices, content, stopReason, usage, error, fmt) ==
  [kind |-> "object", id |-> id, model |-> model, role |-> role,
   choices |-> choices, content |-> content, stop_reason |-> stopReason,
   usage |-> usage, error |-> error, fmt |-> fmt]

\* The body `null`
NoDoc ==
  [Doc(Absent, Absent, Absent, Absent, Absent, Absent, Absent, Absent, "compact")
     EXCEPT !.kind = "null"]

\* The body of the proxy's own error responses: {error: message}
ErrorDoc(message) ==
  Doc(Absent, Absent, Absent, Absent, Absent, Absent, Absent, Some(message), "compact")

\* A plain-text body, such as 'Method not allowed'
TextDoc(message) == [ErrorDoc(message) EXCEPT !.kind = "text"]

DocReturned(v) == [threw |-> "", value |-> v]

DocThrew(e) == [threw |-> e, value |-> NoDoc]

\* `msg_${Math.random().toString(36).slice(2)}`
GeneratedId == "msg_generated"

\* AnthropicTransformer.transformResponseOut: a response that is a string
\* is parsed first, which throws a SyntaxError on a text that is not JSON;
\* reading response.id throws a TypeError when response is null.
AnthropicTransformResponseOut(response) ==
  IF response.kind = "string" THEN DocThrew("SyntaxError")
  ELSE IF response.kind = "null" THEN DocThrew("TypeError")
  ELSE DocReturned(Doc(response.id, response.model, Absent, Absent, response.content,
                       Absent, response.usage, Absent, "compact"))

\* data.choices?.[0]?.message?.content || ''
FirstChoiceContent(data) ==
  IF data.choices = Absent \/ data.choices[1] = <<>> THEN ""
  ELSE data.choices[1][1].content

\* OpenRouterTransformer.transformResponseOut: a response that is a string
\* is parsed first, which throws a SyntaxError on a text that is not JSON;
\* reading data.id throws a TypeError when data is null.
OpenRouterTransformResponseOut(response) ==
  IF response.kind = "string" THEN DocThrew("SyntaxError")
  ELSE IF response.kind = "null" THEN DocThrew("TypeError")
  ELSE DocReturned(Doc(response.id, response.model, Absent, Absent,
                       Some(Str(FirstChoiceContent(response))),
                       Absent, response.usage, Absent, "compact"))

\* A content value is falsy when it is absent or the empty string.
Truthy(content) == content # Absent /\ content[1] # Str("")

\* AnthropicTransformer.transformResponseIn: no model field; the stop reason
\* is the constant 'end_turn'; usage is read under the OpenAI field names.
AnthropicTransformResponseIn(response) ==
  DocReturned(
    Doc(Some(IF response.id = Absent \/ response.id[1] = "" THEN GeneratedId
             ELSE response.id[1]),
        Absent, Some("assistant"), Absent,
        Some(Arr(<< RespTextBlock(IF Truthy(response.content) THEN response.content[1]
                                  ELSE Str("")) >>)),
        Some("end_turn"),
        Some(ClaudeUsage(UsageField(response.usage, "prompt_tokens"),
                         UsageField(response.usage, "completion_tokens"))),
        Absent, "compact"))

\* OpenRouterTransformer.convertToClaude
convertToClaude(openaiResponse) ==
  Doc(Some(IF openaiResponse.id = Absent \/ openaiResponse.id[1] = "" THEN GeneratedId
           ELSE openaiResponse.id[1]),
      openaiResponse.model, Some("assistant"), Absent,
      Some(Arr(<< RespTextBlock(IF Truthy(openaiResponse.content)
                                THEN openaiResponse.content[1] ELSE Str("")) >>)),
      Some("end_turn"),
      Some(ClaudeUsage(UsageField(openaiResponse.usage, "prompt_tokens"),
                       UsageField(openaiResponse.usage, "completion_tokens"))),
      Absent, "compact")

\* OpenRouterTransformer.transformResponseIn
OpenRouterTransformResponseIn(response) == DocReturned(convertToClaude(response))

\* The transformer registered under a provider id.
TransformRequestIn(provider, request) ==
  IF provider = "anthropic" THEN AnthropicTransformRequestIn(request)
  ELSE OpenRouterTransformRequestIn(request)

TransformResponseOut(provider, response) ==
  IF provider = "anthropic" THEN AnthropicTransformResponseOut(response)
  ELSE OpenRouterTransformResponseOut(response)

TransformResponseIn(provider, response) ==
  IF provider = "anthropic" THEN AnthropicTransformResponseIn(response)
  ELSE OpenRouterTransformResponseIn(response)

\* ------------------------- handleClaudeToOpenRouter's converters (part_001)

\* mapModelName of handleClaudeToOpenRouter
ClaudeToOpenRouterMapModelName(model) ==
  IF ~StartsWith(model, "claude-") THEN model
  ELSE IF StartsWith(model, "claude-opus-4") THEN "anthropic/claude-opus-4"
  ELSE IF StartsWith(model, "claude-sonnet-4") THEN "anthropic/claude-sonnet-4"
  ELSE IF StartsWith(model, "claude-3-7-sonnet") THEN "anthropic/claude-3.7-sonnet"
  ELSE IF StartsWith(model, "claude-3-5-sonnet") THEN "anthropic/claude-3.5-sonnet"
  ELSE IF StartsWith(model, "claude-3-5-haiku") THEN "anthropic/claude-3.5-haiku"
  ELSE IF StartsWith(model, "claude-3-opus") THEN "anthropic/claude-3-opus"
  ELSE IF StartsWith(model, "claude-3-sonnet") THEN "anthropic/claude-3-sonnet"
  ELSE IF StartsWith(model, "claude-3-haiku") THEN "anthropic/claude-3-haiku"
  ELSE "anthropic/" \o model

\* openRouterRequest of handleClaudeToOpenRouter: the messages are taken as
\* they are and tools are not copied.  Reading claudeRequest.model throws a
\* TypeError on the body null, and mapModelName on a model that is absent.
ClaudeToOpenRouterRequest(claudeRequest) ==
  IF claudeRequest.kind = "null" \/ claudeRequest.model = Absent THEN Threw("TypeError")
  ELSE Returned(Body(Some(ClaudeToOpenRouterMapModelName(claudeRequest.model[1])),
                     claudeRequest.messages,
                     Some(OrDefault(claudeRequest.max_tokens, DefaultMaxTokens)),
                     Some(OrDefault(claudeRequest.temperature, DefaultTemperature)),
                     claudeRequest.top_p,
                     Some(claudeRequest.stream = Some(TRUE)),
                     Absent, Absent, "compact"))

\* `tool_${Math.random().toString(36).slice(2)}`
GeneratedToolId == "tool_generated"

\* The texts JSON.parse accepts as a tool call's arguments.
JsonTexts == {"{}", "{\"city\":\"Oslo\"}"}

\* JSON.parse(toolCall.function.arguments || '{}'), with {raw_arguments}
\* when the text does not parse.
ToolInput(arguments) ==
  IF arguments = "" THEN [parsed |-> "{}", raw_arguments |-> Absent]
  ELSE IF arguments \in JsonTexts THEN [parsed |-> arguments, raw_arguments |-> Absent]
  ELSE [parsed |-> "", raw_arguments |-> Some(arguments)]

\* The tool_use blocks convertOpenAIToClaude makes of message.tool_calls
RECURSIVE ToolUseBlocks(_, _)
ToolUseBlocks(toolCalls, i) ==
  IF i > Len(toolCalls) THEN <<>>
  ELSE LET toolCall == toolCalls[i] IN
       (IF toolCall.type = "function"
        THEN << RespToolUseBlock(IF toolCall.id = "" THEN GeneratedToolId ELSE toolCall.id,
                                 toolCall.name, ToolInput(toolCall.arguments)) >>
        ELSE <<>>) \o ToolUseBlocks(toolCalls, i + 1)

\* convertOpenAIToClaude.  Reading openaiResponse.choices throws a TypeError
\* on the value null; on an array, a number, a boolean or a string it gives
\* undefined, as on an object without choices.
convertOpenAIToClaude(openaiResponse, originalRequest) ==
  IF openaiResponse.kind = "null" THEN DocThrew("TypeError")
  ELSE IF openaiResponse.choices = Absent \/ openaiResponse.choices[1] = <<>>
  THEN DocThrew("No choices in OpenAI response")
  ELSE LET choice == openaiResponse.choices[1][1]
           textBlocks == IF choice.content # ""
                         THEN << RespTextBlock(Str(choice.content)) >> ELSE <<>>
           blocks == textBlocks \o ToolUseBlocks(choice.tool_calls, 1)
       IN  DocReturned(
             Doc(Some(IF openaiResponse.id = Absent \/ openaiResponse.id[1] = ""
                      THEN GeneratedId ELSE openaiResponse.id[1]),
                 originalRequest.model, Some("assistant"), Absent,
                 Some(Arr(IF blocks = <<>> THEN << RespTextBlock(Str("")) >> ELSE blocks)),
                 Some(StopReasonTable(choice.finish_reason)),
                 Some(ClaudeUsage(UsageField(openaiResponse.usage, "prompt_tokens"),
                                  UsageField(openaiResponse.usage, "completion_tokens"))),
                 Absent, "compact"))

\* ------------------------------------------------- requests and responses

\* LLMProxyService.initializeTransformers / initializeProviders
RegisteredProviders == {"anthropic", "openrouter"}

\* The format of the target's wire: OpenAI-compatible or Claude.
SpeaksOpenAI(provider) == provider = "openrouter"

\* A client request: the entry point it is routed to, its method, its
\* Authorization header ("none", "bearer", or "basic" for another scheme),
\* whether the worker's environment holds an API key, the provider ids of
\* the path, and its body.
Request(handler, method, auth, envKey, source, target, body) ==
  [handler |-> handler, method |-> method, auth |-> auth, envKey |-> envKey,
   source |-> source, target |-> target, body |-> body]

HelloBody ==
  Body(Some("claude-sonnet-4"), Some(<< Message("user", Str("Hello")) >>), Some(1000), Absent, Absent,
       Absent, Absent, Absent, "compact")

StreamBody == [HelloBody EXCEPT !.stream = Some(TRUE)]

RichBody ==
  Body(Some("claude-3-5-sonnet-20241022"),
       Some(<< Message("user", Arr(<< TextBlock("Hi"), TextBlock("there") >>)),
               Message("assistant", Arr(<< ToolUseBlock("t1") >>)),
               Message("user", Arr(<< ToolResultBlock("t1", "42") >>)) >>),
       Absent, Some(0), Some(9), Some(FALSE),
       Some(<< [name |-> "get_weather", description |-> "weather",
                input_schema |-> "object"],
               [name |-> "get_time", description |-> "time",
                input_schema |-> "empty"] >>),
       Some("system"), "spaced")

\* Messages that mix a tool_result with text or with another tool_result.
ToolResultsBody ==
  [HelloBody EXCEPT !.messages =
     Some(<< Message("user", Arr(<< TextBlock("a"), ToolResultBlock("t1", "42") >>)),
             Message("user", Arr(<< ToolResultBlock("t1", "42"), TextBlock("b") >>)),
             Message("user", Arr(<< ToolResultBlock("t3", "41"),
                                    ToolResultBlock("t2", "43") >>)) >>)]

NoMessagesBody == [HelloBody EXCEPT !.messages = Absent]

NotJsonBody == [NoBody EXCEPT !.kind = "text"]

PlainBodies ==
  {HelloBody, RichBody, ToolResultsBody, NoMessagesBody, NoBody, ArrayBody, NotJsonBody}

ProviderIds == RegisteredProviders \cup {"foo"}

\* The requests of the model: every combination of method, credentials and
\* provider ids with the bodies that do not stream, the streaming body with
\* and without credentials, and requests whose path is no route.  The
\* handlers of part_001 are those of the worker whose handlers stream and
\* (Plain) those of the worker whose handlers do not.
Requests ==
  LET WorkerRoutes == {"ClaudeToOpenRouter", "ClaudeProxy",
                       "ClaudeToOpenRouterPlain", "ClaudeProxyPlain"}
  IN
  { Request("Conversion", m, a[1], a[2], src, tgt, b) :
      m \in {"POST", "GET", "OPTIONS"},
      a \in {<<"none", FALSE>>, <<"none", TRUE>>, <<"bearer", FALSE>>},
      src \in ProviderIds, tgt \in ProviderIds, b \in PlainBodies }
  \cup
  { Request("Conversion", "POST", a, FALSE, src, tgt, StreamBody) :
      a \in {"none", "bearer"}, src \in ProviderIds, tgt \in ProviderIds }
  \cup
  { Request(h, m, a, FALSE, "anthropic",
            IF h \in {"ClaudeProxy", "ClaudeProxyPlain"} THEN "anthropic"
            ELSE "openrouter", b) :
      h \in WorkerRoutes,
      m \in {"POST", "GET", "OPTIONS"}, a \in {"none", "bearer", "basic"},
      b \in PlainBodies }
  \cup
  { Request(h, "POST", a, FALSE, "anthropic",
            IF h \in {"ClaudeProxy", "ClaudeProxyPlain"} THEN "anthropic"
            ELSE "openrouter", StreamBody) :
      h \in WorkerRoutes, a \in {"none", "bearer"} }
  \cup
  { Request("Documentation", m, a, FALSE, "none", "none", b) :
      m \in {"POST", "GET", "OPTIONS"}, a \in {"none", "bearer"},
      b \in {HelloBody, NoBody} }

\* A response: its status, its body when the body is one document, and
\* whether the body is a stream (then the body is what the stream delivers).
Response(status, doc, streamed) ==
  [status |-> status, doc |-> doc, streamed |-> streamed]

NoResponse == Response(0, NoDoc, FALSE)

JsonResponse(status, doc) == Response(status, doc, FALSE)

\* new Response(body, {status}): the runtime refuses a status outside 200 to
\* 599 with a RangeError, and then, with a body that is not null, the
\* statuses that cannot have a body with a TypeError; the catch clause around
\* the handler answers either with 500 and {error: message}.
StreamResponse(status) ==
  IF status < 200 \/ status > 599
  THEN Response(500, ErrorDoc("RangeError"), FALSE)
  ELSE Response(status, NoDoc, TRUE)

NewResponse(status, doc, streamed) ==
  IF status < 200 \/ status > 599
  THEN Response(500, ErrorDoc("RangeError"), FALSE)
  ELSE IF status \in {204, 205, 304}
  THEN Response(500, ErrorDoc("TypeError"), FALSE)
  ELSE Response(status, doc, streamed)

IsOk(status) == status >= 200 /\ status <= 299

\* --------------------------------------------------------- the upstream

OkOpenAIDoc ==
  Doc(Some("gen-1"), Some("anthropic/claude-sonnet-4"), Absent,
      Some(<< Choice("Hi", "stop", <<>>) >>), Absent, Absent,
      Some(Usage(Some(3), Some(5), Absent, Absent)), Absent, "spaced")

NoChoicesDoc == [OkOpenAIDoc EXCEPT !.choices = Some(<<>>)]

\* A completion that asks for a tool call.
ToolCallsDoc ==
  [OkOpenAIDoc EXCEPT !.choices =
     Some(<< Choice("", "tool_calls",
                    << ToolCall("function", "call_1", "get_weather", "{}") >>) >>)]

\* Text and then tool calls: two function calls, the second with arguments
\* that are no JSON, and between them a call that is no function call.
TextAndToolCallsDoc ==
  [OkOpenAIDoc EXCEPT !.choices =
     Some(<< Choice("Let me check", "tool_calls",
                    << ToolCall("function", "call_1", "get_weather", "{\"city\":\"Oslo\"}"),
                       ToolCall("other", "call_2", "lookup", "{}"),
                       ToolCall("function", "call_3", "get_time", "{") >>) >>)]

\* Completions whose finish_reason is the name of a property every object
\* inherits.
ConstructorDoc ==
  [OkOpenAIDoc EXCEPT !.choices = Some(<< Choice("Hi", "constructor", <<>>) >>)]

ProtoDoc == [OkOpenAIDoc EXCEPT !.choices = Some(<< Choice("Hi", "__proto__", <<>>) >>)]

\* The 2xx JSON bodies an OpenAI-compatible upstream answers with, to a
\* request that asks for a stream as well; one of them is a completion cut at
\* max_tokens.
OpenAIDocs ==
  {OkOpenAIDoc, NoChoicesDoc,
   [OkOpenAIDoc EXCEPT !.choices = Some(<< Choice("Hi", "length", <<>>) >>)],
   ToolCallsDoc, TextAndToolCallsDoc, ConstructorDoc, ProtoDoc}

\* The 2xx JSON bodies that are no object: null, [] and "x".
NonObjectDocs ==
  {NoDoc, [NoDoc EXCEPT !.kind = "array"], [NoDoc EXCEPT !.kind = "string"]}

OkClaudeDoc ==
  Doc(Some("msg_1"), Some("claude-sonnet-4"), Some("assistant"), Absent,
      Some(Arr(<< RespTextBlock(Str("Hi")) >>)), Some("end_turn"),
      Some(ClaudeUsage(3, 5)), Absent, "spaced")

\* An upstream response: status, the body as one document, and whether the
\* response has a body at all (response.body is null when it has none).
Upstream(status, doc, hasBody) ==
  [status |-> status, doc |-> doc, hasBody |-> hasBody]

NoUpstream == Upstream(0, NoDoc, FALSE)

\* What the upstream may answer to a payload: an error (a JSON error body
\* or a plain-text one), a 2xx without body, a JSON document in the target's
\* format or one that is no object, or, to a payload that asks for a
\* stream, an event stream.
Upstreams(target, payload) ==
  { Upstream(401, [ErrorDoc("invalid api key") EXCEPT !.fmt = "spaced"], TRUE), Upstream(502, TextDoc("Bad Gateway"), TRUE),
    Upstream(204, TextDoc(""), FALSE) }
  \cup { Upstream(200, d, TRUE) :
           d \in (IF SpeaksOpenAI(target) THEN OpenAIDocs ELSE {OkClaudeDoc})
                   \cup NonObjectDocs }
  \cup IF payload.stream = Some(TRUE)
       THEN { Upstream(200, TextDoc("event stream"), TRUE) }
       ELSE {}

\* The lines of the body of an upstream response that is read as a stream.
\* An event stream is made of the event lines of the upstream's format,
\* each with its newline (a body that is handed on unread may hold any
\* lines).  Any other body is the one document of the response, without a
\* newline: a JSON object, or a text that is none.
StreamMenu(handler, upstream) ==
  IF upstream.doc = TextDoc("event stream")
  THEN IF handler = "ClaudeToOpenRouter" THEN OpenAILines
       ELSE IF handler = "ClaudeProxy" THEN ClaudeLines
       ELSE OpaqueLines
  ELSE IF upstream.doc.kind = "object" THEN { <<"{", "r">> }
  ELSE { <<"t">> }

\* response.json(): fails on a body that is absent or is not JSON.
ResponseJson(upstream) ==
  IF upstream.hasBody /\ upstream.doc.kind # "text"
  THEN DocReturned([upstream.doc EXCEPT !.fmt = "compact"])
  ELSE DocThrew("SyntaxError")

\* JSON.stringify of a response value: written compactly; a property whose
\* value is a function is left out.
StringifyDoc(doc) ==
  [doc EXCEPT !.fmt = "compact",
              !.stop_reason = IF @ = Some(FunctionValue) THEN Absent ELSE @]

\* ------------------------------------------------------------- the state

VARIABLES
  providers, \* the keys of proxyService's transformers and providers maps
  peer,      \* the locals of a second request that is being handled, if any
  req,       \* the client request being handled
  pc,        \* "start", "done", "streaming", or the await the handler is at:
             \* "request.json", "request.text", "transformRequestOut",
             \* "transformRequestIn", "fetching", "response.text",
             \* "response.json", "transformResponseOut", "transformResponseIn"
  steps,     \* the transformer calls, fetches and body reads made, in order
  sent,      \* the payloads of the fetch calls made, in order
  up,        \* the upstream's response
  resp,      \* the response returned to the client
  received,  \* the symbols of the upstream body read so far by a stream loop
  buffer,    \* processStream's buffer
  events,    \* the events sendEvent has enqueued
  relayed,   \* the symbols enqueued by a relay of the upstream body
  outState   \* the client's stream: "none", "open", "closed", "errored", "cancelled"

vars == << providers, peer, req, pc, steps, sent, up, resp, received, buffer,
           events, relayed, outState >>

streamVars == << received, buffer, events, relayed, outState >>

Step(op, provider) == [op |-> op, provider |-> provider]

\* What one invocation of a handler holds: its request and the locals of
\* its closures.
Locals(r, p, st, se, u, rs, rc, b, e, rl, o) ==
  [req |-> r, pc |-> p, steps |-> st, sent |-> se, up |-> u, resp |-> rs,
   received |-> rc, buffer |-> b, events |-> e, relayed |-> rl, outState |-> o]

\* No second request is being handled.
NoPeer ==
  Locals(Request("none", "GET", "none", FALSE, "foo", "foo", NoBody), "none",
         <<>>, <<>>, NoUpstream, NoResponse, <<>>, <<>>, <<>>, <<>>, "none")

Init ==
  /\ providers = RegisteredProviders
  /\ peer = NoPeer
  /\ req \in Requests
  /\ pc = "start"
  /\ steps = <<>>
  /\ sent = <<>>
  /\ up = NoUpstream
  /\ resp = NoResponse
  /\ received = <<>>
  /\ buffer = <<>>
  /\ events = <<>>
  /\ relayed = <<>>
  /\ outState = "none"

\* The handler returns `response` without (further) calls.
Return(response, calls) ==
  /\ pc' = "done"
  /\ resp' = response
  /\ steps' = steps \o calls

\* fetch(endpoint, {body}) is called after `calls`; the handler awaits it.
Fetch(payload, calls) ==
  /\ pc' = "fetching"
  /\ sent' = Append(sent, payload)
  /\ steps' = steps \o calls \o << Step("fetch", req.target) >>
  /\ UNCHANGED resp

\* The handler calls `op` of the provider's transformer, or of the
\* provider's response, and awaits what it returns.
Await(op, provider) ==
  /\ pc' = op
  /\ steps' = Append(steps, Step(op, provider))
  /\ UNCHANGED resp

\* The catch clauses: {error: message} with status 500.
ServerError(message) == JsonResponse(500, ErrorDoc(message))

\* ------------------- handleRequest (part_000) and the workers' fetch (part_001)

\* The method is OPTIONS: the answer is 200 with the CORS headers and no
\* body, whatever the path is; no handler is called.
Preflight ==
  /\ pc = "start"
  /\ req.method = "OPTIONS"
  /\ Return(Response(200, TextDoc(""), FALSE), <<>>)
  /\ UNCHANGED << providers, peer, req, sent, up, streamVars >>

\* The path is no route: the answer is the documentation, as text/plain
\* with status 200, whatever the method and the body are.
Documentation ==
  /\ pc = "start"
  /\ req.method # "OPTIONS"
  /\ req.handler = "Documentation"
  /\ Return(Response(200, TextDoc("LLM Proxy Service"), FALSE), <<>>)
  /\ UNCHANGED << providers, peer, req, sent, up, streamVars >>

\* ----------------------- LLMProxyService.handleConversionRequest (part_000)

HasApiKey(r) == r.auth # "none" \/ r.envKey

\* The provider check with the source left out.
ProvidersValidTargetOnly(r) == r.target \in providers

\* Both transformers and the target's provider entry are looked up; the
\* request is refused when one is missing.
ProvidersValid(r) == r.source \in providers /\ r.target \in providers

\* No transformer is needed: `sourceProvider === targetProvider` in
\* handleConversionRequest, `sourceTransformer.name === targetTransformer.name`
\* in handleStreamingRequest (each transformer's name is its provider id).
PassesThrough(r) == r.source = r.target

\* The locals unifiedRequest and transformedRequest of a cross-provider
\* request.
UnifiedRequest(r) == transformRequestOut(r.body)

TransformedRequest(r) == TransformRequestIn(r.target, UnifiedRequest(r).value)

\* makeProviderRequest with the fetch made a second time.
MakeProviderRequestTwice(requestData, calls) ==
  /\ pc' = "fetching"
  /\ sent' = sent \o << JsonRoundTrip(requestData), JsonRoundTrip(requestData) >>
  /\ steps' = steps \o calls \o << Step("fetch", req.target), Step("fetch", req.target) >>
  /\ UNCHANGED resp

\* makeProviderRequest: one fetch with JSON.stringify(requestData) as body.
MakeProviderRequest(requestData, calls) == Fetch(JsonRoundTrip(requestData), calls)

\* handleConversionRequest up to `await request.json()`: the method and the
\* provider ids are checked and the body is asked for.
ConversionReceive ==
  /\ pc = "start"
  /\ req.method # "OPTIONS"
  /\ req.handler = "Conversion"
  /\ IF req.method # "POST"
     THEN Return(JsonResponse(405, TextDoc("Method not allowed")), <<>>)
     ELSE IF ~ProvidersValid(req)
     THEN Return(JsonResponse(400, ErrorDoc("Invalid provider combination")), <<>>)
     ELSE pc' = "request.json" /\ UNCHANGED << steps, resp >>
  /\ UNCHANGED << providers, peer, req, sent, up, streamVars >>

\* request.json() has settled: a body that is not JSON is answered with 500;
\* the API key is looked up; requestBody.stream is read, which throws on the
\* body null; then, in handleConversionRequest or (for a body that asks for
\* a stream) in handleStreamingRequest, the body is dispatched as it is when
\* source and target are the same, else source.transformRequestOut is called
\* and awaited.
ConversionRequestJson ==
  /\ pc = "request.json"
  /\ req.handler = "Conversion"
  /\ UNCHANGED << providers, peer, req, up, streamVars >>
  /\ IF ~JsonIsValid(req.body)
     THEN Return(ServerError("SyntaxError"), <<>>) /\ UNCHANGED sent
     ELSE IF ~HasApiKey(req)
     THEN Return(JsonResponse(401, ErrorDoc("Missing API key")), <<>>) /\ UNCHANGED sent
     ELSE IF req.body.kind = "null"
     THEN Return(ServerError("TypeError"), <<>>) /\ UNCHANGED sent
     ELSE IF PassesThrough(req)
     THEN MakeProviderRequest(req.body, <<>>)
     ELSE Await("transformRequestOut", req.source) /\ UNCHANGED sent

\* source.transformRequestOut has settled: target.transformRequestIn is
\* called with what it returned and awaited.
ConversionTransformRequestOut ==
  /\ pc = "transformRequestOut"
  /\ req.handler = "Conversion"
  /\ IF UnifiedRequest(req).threw # ""
     THEN Return(ServerError(UnifiedRequest(req).threw), <<>>)
     ELSE Await("transformRequestIn", req.target)
  /\ UNCHANGED << providers, peer, req, sent, up, streamVars >>

\* target.transformRequestIn has settled: what it returned is dispatched, or
\* its error is answered with 500.
ConversionTransformRequestIn ==
  /\ pc = "transformRequestIn"
  /\ req.handler = "Conversion"
  /\ UNCHANGED << providers, peer, req, up, streamVars >>
  /\ IF TransformedRequest(req).threw # ""
     THEN Return(ServerError(TransformedRequest(req).threw), <<>>) /\ UNCHANGED sent
     ELSE MakeProviderRequest(TransformedRequest(req).value, <<>>)

\* handleConversionRequest when the fetch has settled (no stream asked): the
\* text of a non-2xx answer is asked for, else the answer's JSON.
ConversionRespond ==
  /\ pc = "fetching"
  /\ req.handler = "Conversion"
  /\ req.body.stream # Some(TRUE)
  /\ \E u \in Upstreams(req.target, sent[Len(sent)]) :
       /\ up' = u
       /\ IF ~IsOk(u.status)
          THEN Await("response.text", req.target)
          ELSE Await("response.json", req.target)
  /\ UNCHANGED << providers, peer, req, sent, streamVars >>

\* handleStreamingRequest when the fetch has settled.  Same transformer: the
\* upstream's body is handed to the client as it is, with the upstream's
\* status.  Else the text of a non-2xx answer is asked for, or the JSON of
\* the whole body.
StreamingRespond ==
  /\ pc = "fetching"
  /\ req.handler = "Conversion"
  /\ req.body.stream = Some(TRUE)
  /\ \E u \in Upstreams(req.target, sent[Len(sent)]) :
       /\ up' = u
       /\ IF PassesThrough(req)
          THEN /\ resp' = IF u.hasBody THEN NewResponse(u.status, NoDoc, TRUE)
                          ELSE StreamResponse(u.status)
               /\ steps' = steps
               /\ pc' = IF resp'.streamed /\ u.hasBody THEN "streaming" ELSE "done"
               /\ outState' = IF ~resp'.streamed THEN outState
                              ELSE IF u.hasBody THEN "open" ELSE "closed"
          ELSE /\ outState' = outState
               /\ IF ~IsOk(u.status)
                  THEN Await("response.text", req.target)
                  ELSE Await("response.json", req.target)
  /\ UNCHANGED << providers, peer, req, sent, received, buffer, events, relayed >>

\* response.text() of a non-2xx answer has settled: the text is returned
\* with the upstream's status.
ConversionResponseText ==
  /\ pc = "response.text"
  /\ req.handler = "Conversion"
  /\ Return(NewResponse(up.status, up.doc, FALSE), <<>>)
  /\ UNCHANGED << providers, peer, req, sent, up, streamVars >>

\* The locals unifiedResponse and finalResponse of a cross-provider request.
UnifiedResponse(r, u) == TransformResponseOut(r.target, ResponseJson(u).value)

FinalResponse(r, u) == TransformResponseIn(r.source, UnifiedResponse(r, u).value)

\* response.json() has settled and the answer is lowered for the source
\* without having been lifted from the target's format.
ConversionResponseJsonNotLifted ==
  /\ pc = "response.json"
  /\ req.handler = "Conversion"
  /\ IF ResponseJson(up).threw # ""
     THEN Return(ServerError(ResponseJson(up).threw), <<>>)
     ELSE Await("transformResponseIn", req.source)
  /\ UNCHANGED << providers, peer, req, sent, up, streamVars >>

\* response.json() has settled: a body that is not JSON is answered with
\* 500; responseData is returned with status 200 when source and target are
\* the same provider; else target.transformResponseOut is called and
\* awaited.
ConversionResponseJson ==
  /\ pc = "response.json"
  /\ req.handler = "Conversion"
  /\ IF ResponseJson(up).threw # ""
     THEN Return(ServerError(ResponseJson(up).threw), <<>>)
     ELSE IF req.body.stream # Some(TRUE) /\ PassesThrough(req)
     THEN Return(JsonResponse(200, StringifyDoc(ResponseJson(up).value)), <<>>)
     ELSE Await("transformResponseOut", req.target)
  /\ UNCHANGED << providers, peer, req, sent, up, streamVars >>

\* target.transformResponseOut has settled: source.transformResponseIn is
\* called with what it returned and awaited.
ConversionTransformResponseOut ==
  /\ pc = "transformResponseOut"
  /\ req.handler = "Conversion"
  /\ IF UnifiedResponse(req, up).threw # ""
     THEN Return(ServerError(UnifiedResponse(req, up).threw), <<>>)
     ELSE Await("transformResponseIn", req.source)
  /\ UNCHANGED << providers, peer, req, sent, up, streamVars >>

\* source.transformResponseIn has settled: what it returned is answered with
\* status 200.
ConversionTransformResponseIn ==
  /\ pc = "transformResponseIn"
  /\ req.handler = "Conversion"
  /\ IF FinalResponse(req, up).threw # ""
     THEN Return(ServerError(FinalResponse(req, up).threw), <<>>)
     ELSE Return(JsonResponse(200, StringifyDoc(FinalResponse(req, up).value)), <<>>)
  /\ UNCHANGED << providers, peer, req, sent, up, streamVars >>

\* fetch rejects (the upstream cannot be reached): the handler's catch
\* answers with status 500.
FetchFails ==
  /\ pc = "fetching"
  /\ Return(ServerError("fetch failed"), <<>>)
  /\ UNCHANGED << providers, peer, req, sent, up, streamVars >>

\* What a read of the upstream body may deliver next: a run of bytes that
\* goes on where the last chunk ended, inside a marker when it ended there,
\* and that ends after any symbol or inside a marker.  Two requests that are
\* handled at a time read MaxConcurrentBytes between them.
NextChunks ==
  LET limit   == IF peer # NoPeer THEN MaxConcurrentBytes - Len(peer.received)
                 ELSE IF req.handler = "ClaudeToOpenRouter" THEN MaxBytes
                 ELSE MaxRelayBytes
      pending == received # <<>>
                 /\ \E m \in Markers : received[Len(received)] = m \o "<"
      base    == IF pending THEN SubSeq(received, 1, Len(received) - 1) ELSE received
      n       == Min(MaxChunk, limit - Len(base))
      menu    == StreamMenu(req.handler, up)
      whole   == IF up.doc = TextDoc("event stream")
                 THEN Continuations(menu, base, n)
                 ELSE UNION { { SubSeq(Drop(line, Len(base)), 1, k) :
                                  k \in 1..Min(Len(line) - Len(base), n) } :
                              line \in menu }
      fitting == IF pending
                 THEN { c \in whole : c[1] \o "<" = received[Len(received)] }
                 ELSE whole
      Begun(c) == IF pending THEN << ">" \o c[1] >> \o Tail(c) ELSE c
      Cut(c)   == SubSeq(c, 1, Len(c) - 1) \o << c[Len(c)] \o "<" >>
  IN  { Begun(c) : c \in fitting }
      \cup { Begun(Cut(c)) :
               c \in { d \in fitting : d[Len(d)] \in Markers /\ (pending => Len(d) > 1) } }

\* The same-provider stream of handleStreamingRequest: the runtime moves
\* each chunk of response.body to the client.
PassThroughRead ==
  /\ pc = "streaming"
  /\ req.handler = "Conversion"
  /\ \E c \in NextChunks :
       /\ received' = Join(received, c)
       /\ relayed' = Join(relayed, c)
  /\ UNCHANGED << providers, peer, req, pc, steps, sent, up, resp, buffer, events, outState >>

PassThroughEnd ==
  /\ pc = "streaming"
  /\ req.handler = "Conversion"
  /\ pc' = "done"
  /\ outState' = "closed"
  /\ UNCHANGED << providers, peer, req, steps, sent, up, resp, received, buffer, events, relayed >>

PassThroughFail ==
  /\ pc = "streaming"
  /\ req.handler = "Conversion"
  /\ pc' = "done"
  /\ outState' = "errored"
  /\ UNCHANGED << providers, peer, req, steps, sent, up, resp, received, buffer, events, relayed >>

\* The client cancels the stream: the stream is response.body itself, so the
\* upstream body is cancelled with it and nothing more is read.
PassThroughCancel ==
  /\ pc = "streaming"
  /\ req.handler = "Conversion"
  /\ pc' = "done"
  /\ outState' = "cancelled"
  /\ UNCHANGED << providers, peer, req, steps, sent, up, resp, received, buffer, events, relayed >>

\* ----------------------------------------- handleClaudeToOpenRouter (part_001)

\* handleClaudeToOpenRouter up to `await request.json()`.
ClaudeToOpenRouterReceive ==
  /\ pc = "start"
  /\ req.method # "OPTIONS"
  /\ req.handler = "ClaudeToOpenRouter"
  /\ IF req.method # "POST"
     THEN Return(JsonResponse(405, TextDoc("Method not allowed")), <<>>)
     ELSE IF req.auth # "bearer"
     THEN Return(JsonResponse(401, ErrorDoc("Authorization header required")), <<>>)
     ELSE pc' = "request.json" /\ UNCHANGED << steps, resp >>
  /\ UNCHANGED << providers, peer, req, sent, up, streamVars >>

\* request.json() has settled: openRouterRequest is made and dispatched; an
\* error is caught by the worker's fetch and answered with 500.
ClaudeToOpenRouterRequestJson ==
  /\ pc = "request.json"
  /\ req.handler = "ClaudeToOpenRouter"
  /\ UNCHANGED << providers, peer, req, up, streamVars >>
  /\ IF ~JsonIsValid(req.body)
     THEN Return(ServerError("SyntaxError"), <<>>) /\ UNCHANGED sent
     ELSE LET openRouterRequest == ClaudeToOpenRouterRequest(req.body) IN
          IF openRouterRequest.threw # ""
          THEN Return(ServerError(openRouterRequest.threw), <<>>) /\ UNCHANGED sent
          ELSE Fetch(openRouterRequest.value, <<>>)

\* handleClaudeToOpenRouter when the fetch has settled: the text of a
\* non-2xx answer is asked for; for a streaming request the ReadableStream
\* is made, whose start() sends message_start and content_block_start and
\* starts processStream (which returns at once when the response has no
\* body); else the answer's JSON is asked for.
ClaudeToOpenRouterRespond ==
  /\ pc = "fetching"
  /\ req.handler = "ClaudeToOpenRouter"
  /\ \E u \in Upstreams(req.target, sent[Len(sent)]) :
       /\ up' = u
       /\ IF ~IsOk(u.status)
          THEN /\ Await("response.text", req.target)
               /\ UNCHANGED << events, outState >>
          ELSE IF req.body.stream = Some(TRUE)
          THEN /\ resp' = StreamResponse(200)
               /\ steps' = steps
               /\ events' = StartEvents
               /\ outState' = "open"
               /\ pc' = IF u.hasBody THEN "streaming" ELSE "done"
          ELSE /\ Await("response.json", req.target)
               /\ UNCHANGED << events, outState >>
  /\ UNCHANGED << providers, peer, req, sent, received, buffer, relayed >>

\* response.text() of a non-2xx answer has settled: the text is returned
\* with the upstream's status.
ClaudeToOpenRouterResponseText ==
  /\ pc = "response.text"
  /\ req.handler = "ClaudeToOpenRouter"
  /\ Return(NewResponse(up.status, up.doc, FALSE), <<>>)
  /\ UNCHANGED << providers, peer, req, sent, up, streamVars >>

\* response.json() has settled: the answer is converted and returned with
\* status 200; an error is answered with 500.
ClaudeToOpenRouterResponseJson ==
  /\ pc = "response.json"
  /\ req.handler = "ClaudeToOpenRouter"
  /\ LET openaiResponse == ResponseJson(up) IN
     IF openaiResponse.threw # ""
     THEN Return(ServerError(openaiResponse.threw), <<>>)
     ELSE LET claudeResponse == convertOpenAIToClaude(openaiResponse.value, req.body) IN
          IF claudeResponse.threw # ""
          THEN Return(ServerError(claudeResponse.threw), <<>>)
          ELSE Return(JsonResponse(200, StringifyDoc(claudeResponse.value)), <<>>)
  /\ UNCHANGED << providers, peer, req, sent, up, streamVars >>

\* One turn of processStream's loop in which reader.read() gives a chunk.
ReframeRead ==
  /\ pc = "streaming"
  /\ req.handler = "ClaudeToOpenRouter"
  /\ \E c \in NextChunks :
       /\ received' = Join(received, c)
       /\ IF outState = "cancelled"
          THEN LET turn == ProcessChunkCancelled(buffer, c) IN
               /\ buffer' = turn.buffer
               /\ pc' = IF turn.threw THEN "done" ELSE pc
               /\ UNCHANGED << events, outState >>
          ELSE LET turn == ProcessChunk(buffer, c) IN
               /\ buffer' = turn.buffer
               /\ events' = events \o turn.sent
               /\ outState' = IF turn.closed THEN "closed" ELSE outState
               /\ pc' = IF turn.closed THEN "done" ELSE pc
  /\ UNCHANGED << providers, peer, req, steps, sent, up, resp, relayed >>

\* reader.read() gives done: the loop is left and processStream returns.
ReframeEnd ==
  /\ pc = "streaming"
  /\ req.handler = "ClaudeToOpenRouter"
  /\ pc' = "done"
  /\ UNCHANGED << providers, peer, req, steps, sent, up, resp, streamVars >>

\* processStream's catch clause with a synthetic end of message before the
\* controller is errored.
CatchReadErrorWithStop(sentSoFar) ==
  [events |-> sentSoFar \o TerminalEvents, outState |-> "errored"]

\* processStream's catch clause: the controller is errored, nothing is sent.
CatchReadError(sentSoFar) == [events |-> sentSoFar, outState |-> "errored"]

\* reader.read() rejects: the catch clause errors the controller.
ReframeFail ==
  /\ pc = "streaming"
  /\ req.handler = "ClaudeToOpenRouter"
  /\ pc' = "done"
  /\ events' = IF outState = "cancelled" THEN events ELSE CatchReadError(events).events
  /\ outState' = IF outState = "cancelled" THEN outState
                 ELSE CatchReadError(events).outState
  /\ UNCHANGED << providers, peer, req, steps, sent, up, resp, received, buffer, relayed >>

\* The client cancels the stream, which it may do as long as the stream is
\* open: while processStream reads, and after processStream has returned
\* without closing it.  The ReadableStream has no cancel() callback:
\* processStream is not told and its reader stays as it is.
ReframeCancel ==
  /\ pc \in {"streaming", "done"}
  /\ req.handler = "ClaudeToOpenRouter"
  /\ resp.streamed
  /\ outState = "open"
  /\ outState' = "cancelled"
  /\ UNCHANGED << providers, peer, req, pc, steps, sent, up, resp, received, buffer, events, relayed >>

\* ------------------------------------------------ handleClaudeProxy (part_001)

\* handleClaudeProxy (the streaming variant) up to `await request.text()`.
ClaudeProxyReceive ==
  /\ pc = "start"
  /\ req.method # "OPTIONS"
  /\ req.handler = "ClaudeProxy"
  /\ IF req.method # "POST"
     THEN Return(JsonResponse(405, TextDoc("Method not allowed")), <<>>)
     ELSE IF req.auth = "none"
     THEN Return(JsonResponse(401, ErrorDoc("Authorization header required")), <<>>)
     ELSE pc' = "request.text" /\ UNCHANGED << steps, resp >>
  /\ UNCHANGED << providers, peer, req, sent, up, streamVars >>

\* request.text() has settled: the text is parsed to look at its stream
\* field later, and is sent as it was received.
ClaudeProxyRequestText ==
  /\ pc = "request.text"
  /\ req.handler = "ClaudeProxy"
  /\ UNCHANGED << providers, peer, req, up, streamVars >>
  /\ IF ~JsonIsValid(req.body)
     THEN Return(ServerError("SyntaxError"), <<>>) /\ UNCHANGED sent
     ELSE Fetch(req.body, <<>>)

\* handleClaudeProxy (the streaming variant) when the fetch has settled:
\* claudeRequest.stream is read, which throws on the body null; for a
\* streaming request the relay stream is made and a Response of it with the
\* upstream's status, whatever that status is: when the constructor throws,
\* the stream reaches no client and the worker's fetch answers with 500;
\* else the upstream's text is asked for.
ClaudeProxyRespond ==
  /\ pc = "fetching"
  /\ req.handler = "ClaudeProxy"
  /\ \E u \in Upstreams(req.target, sent[Len(sent)]) :
       /\ up' = u
       /\ IF req.body.kind = "null"
          THEN Return(ServerError("TypeError"), <<>>) /\ UNCHANGED outState
          ELSE IF req.body.stream = Some(TRUE)
          THEN /\ resp' = NewResponse(u.status, NoDoc, TRUE)
               /\ steps' = steps
               /\ outState' = IF resp'.streamed THEN "open" ELSE outState
               /\ pc' = IF resp'.streamed /\ u.hasBody THEN "streaming" ELSE "done"
          ELSE /\ Await("response.text", req.target)
               /\ UNCHANGED outState
  /\ UNCHANGED << providers, peer, req, sent, received, buffer, events, relayed >>

\* response.text() has settled: a Response is made of the text and the
\* upstream's status; the worker's fetch answers with 500 when that throws.
ClaudeProxyResponseText ==
  /\ pc = "response.text"
  /\ req.handler = "ClaudeProxy"
  /\ Return(NewResponse(up.status, up.doc, FALSE), <<>>)
  /\ UNCHANGED << providers, peer, req, sent, up, streamVars >>

\* One turn of the relay loop in which reader.read() gives a chunk.
RelayRead ==
  /\ pc = "streaming"
  /\ req.handler = "ClaudeProxy"
  /\ \E c \in NextChunks :
       /\ received' = Join(received, c)
       /\ IF outState = "cancelled"
          THEN /\ relayed' = relayed
               /\ pc' = IF RelayChunk(c) # <<>> THEN "done" ELSE pc
          ELSE /\ relayed' = relayed \o RelayChunk(c)
               /\ pc' = pc
  /\ UNCHANGED << providers, peer, req, steps, sent, up, resp, buffer, events, outState >>

\* reader.read() gives done: the loop is left and the controller is closed.
RelayEnd ==
  /\ pc = "streaming"
  /\ req.handler = "ClaudeProxy"
  /\ pc' = "done"
  /\ outState' = IF outState = "cancelled" THEN outState ELSE "closed"
  /\ UNCHANGED << providers, peer, req, steps, sent, up, resp, received, buffer, events, relayed >>

\* reader.read() rejects: the catch clause errors the controller.
RelayFail ==
  /\ pc = "streaming"
  /\ req.handler = "ClaudeProxy"
  /\ pc' = "done"
  /\ outState' = IF outState = "cancelled" THEN outState ELSE "errored"
  /\ UNCHANGED << providers, peer, req, steps, sent, up, resp, received, buffer, events, relayed >>

\* The client cancels the stream.  This ReadableStream has no cancel()
\* callback either: the relay loop is not told.
RelayCancel ==
  /\ pc = "streaming"
  /\ req.handler = "ClaudeProxy"
  /\ outState = "open"
  /\ outState' = "cancelled"
  /\ UNCHANGED << providers, peer, req, pc, steps, sent, up, resp, received, buffer, events, relayed >>

\* handleClaudeToOpenRouter of the worker without streaming, up to
\* `await request.json()`.
ClaudeToOpenRouterPlainReceive ==
  /\ pc = "start"
  /\ req.method # "OPTIONS"
  /\ req.handler = "ClaudeToOpenRouterPlain"
  /\ IF req.method # "POST"
     THEN Return(JsonResponse(405, TextDoc("Method not allowed")), <<>>)
     ELSE IF req.auth # "bearer"
     THEN Return(JsonResponse(401, ErrorDoc("Authorization header required")), <<>>)
     ELSE pc' = "request.json" /\ UNCHANGED << steps, resp >>
  /\ UNCHANGED << providers, peer, req, sent, up, streamVars >>

\* request.json() has settled: openRouterRequest is made and dispatched,
\* with the stream field of the request as it is; an error is caught by the
\* worker's fetch and answered with 500.
ClaudeToOpenRouterPlainRequestJson ==
  /\ pc = "request.json"
  /\ req.handler = "ClaudeToOpenRouterPlain"
  /\ UNCHANGED << providers, peer, req, up, streamVars >>
  /\ IF ~JsonIsValid(req.body)
     THEN Return(ServerError("SyntaxError"), <<>>) /\ UNCHANGED sent
     ELSE LET openRouterRequest == ClaudeToOpenRouterRequest(req.body) IN
          IF openRouterRequest.threw # ""
          THEN Return(ServerError(openRouterRequest.threw), <<>>) /\ UNCHANGED sent
          ELSE Fetch(openRouterRequest.value, <<>>)

\* The fetch has settled: the text of a non-2xx answer is asked for, else
\* the answer's JSON, for a request that asked for a stream as well.
ClaudeToOpenRouterPlainRespond ==
  /\ pc = "fetching"
  /\ req.handler = "ClaudeToOpenRouterPlain"
  /\ \E u \in Upstreams(req.target, sent[Len(sent)]) :
       /\ up' = u
       /\ IF ~IsOk(u.status)
          THEN Await("response.text", req.target)
          ELSE Await("response.json", req.target)
  /\ UNCHANGED << providers, peer, req, sent, streamVars >>

\* response.text() of a non-2xx answer has settled: the text is returned
\* with the upstream's status.
ClaudeToOpenRouterPlainResponseText ==
  /\ pc = "response.text"
  /\ req.handler = "ClaudeToOpenRouterPlain"
  /\ Return(NewResponse(up.status, up.doc, FALSE), <<>>)
  /\ UNCHANGED << providers, peer, req, sent, up, streamVars >>

\* response.json() has settled: the answer is converted and returned with
\* status 200; an error is answered with 500.
ClaudeToOpenRouterPlainResponseJson ==
  /\ pc = "response.json"
  /\ req.handler = "ClaudeToOpenRouterPlain"
  /\ LET openaiResponse == ResponseJson(up) IN
     IF openaiResponse.threw # ""
     THEN Return(ServerError(openaiResponse.threw), <<>>)
     ELSE LET claudeResponse == convertOpenAIToClaude(openaiResponse.value, req.body) IN
          IF claudeResponse.threw # ""
          THEN Return(ServerError(claudeResponse.threw), <<>>)
          ELSE Return(JsonResponse(200, StringifyDoc(claudeResponse.value)), <<>>)
  /\ UNCHANGED << providers, peer, req, sent, up, streamVars >>

\* handleClaudeProxy (the variant without streaming) up to
\* `await request.text()`.
ClaudeProxyPlainReceive ==
  /\ pc = "start"
  /\ req.method # "OPTIONS"
  /\ req.handler = "ClaudeProxyPlain"
  /\ IF req.method # "POST"
     THEN Return(JsonResponse(405, TextDoc("Method not allowed")), <<>>)
     ELSE IF req.auth = "none"
     THEN Return(JsonResponse(401, ErrorDoc("Authorization header required")), <<>>)
     ELSE pc' = "request.text" /\ UNCHANGED << steps, resp >>
  /\ UNCHANGED << providers, peer, req, sent, up, streamVars >>

\* request.text() has settled: the text is sent as it was received.
ClaudeProxyPlainRequestText ==
  /\ pc = "request.text"
  /\ req.handler = "ClaudeProxyPlain"
  /\ Fetch(req.body, <<>>)
  /\ UNCHANGED << providers, peer, req, up, streamVars >>

\* The fetch has settled: the upstream's text is asked for.
ClaudeProxyPlainRespond ==
  /\ pc = "fetching"
  /\ req.handler = "ClaudeProxyPlain"
  /\ \E u \in Upstreams(req.target, sent[Len(sent)]) :
       /\ up' = u
       /\ Await("response.text", req.target)
  /\ UNCHANGED << providers, peer, req, sent, streamVars >>

\* response.text() has settled: a Response is made of the text and the
\* upstream's status; the worker's fetch answers with 500 when that throws.
ClaudeProxyPlainResponseText ==
  /\ pc = "response.text"
  /\ req.handler = "ClaudeProxyPlain"
  /\ Return(NewResponse(up.status, up.doc, FALSE), <<>>)
  /\ UNCHANGED << providers, peer, req, sent, up, streamVars >>

\* ------------------------------------------------------ the specification

Next ==
  \/ Preflight
  \/ Documentation
  \/ ConversionReceive
  \/ ConversionRequestJson
  \/ ConversionTransformRequestOut
  \/ ConversionTransformRequestIn
  \/ ConversionRespond
  \/ StreamingRespond
  \/ ConversionResponseText
  \/ ConversionResponseJson
  \/ ConversionTransformResponseOut
  \/ ConversionTransformResponseIn
  \/ FetchFails
  \/ PassThroughRead
  \/ PassThroughEnd
  \/ PassThroughFail
  \/ PassThroughCancel
  \/ ClaudeToOpenRouterReceive
  \/ ClaudeToOpenRouterRequestJson
  \/ ClaudeToOpenRouterRespond
  \/ ClaudeToOpenRouterResponseText
  \/ ClaudeToOpenRouterResponseJson
  \/ ReframeRead
  \/ ReframeEnd
  \/ ReframeFail
  \/ ReframeCancel
  \/ ClaudeProxyReceive
  \/ ClaudeProxyRequestText
  \/ ClaudeProxyRespond
  \/ ClaudeProxyResponseText
  \/ RelayRead
  \/ RelayEnd
  \/ RelayFail
  \/ RelayCancel
  \/ ClaudeToOpenRouterPlainReceive
  \/ ClaudeToOpenRouterPlainRequestJson
  \/ ClaudeToOpenRouterPlainRespond
  \/ ClaudeToOpenRouterPlainResponseText
  \/ ClaudeToOpenRouterPlainResponseJson
  \/ ClaudeProxyPlainReceive
  \/ ClaudeProxyPlainRequestText
  \/ ClaudeProxyPlainRespond
  \/ ClaudeProxyPlainResponseText

Spec == Init /\ [][Next]_vars

\* ----------------------------------------------- two requests at a time

\* A worker is made once and handles every request it is sent; the runtime
\* runs one handler until its next await and may then go on with another.
\* Two requests of one worker are modelled: the one at work, in the
\* variables, and the one that waits, in peer.  The requests are those of a
\* client that speaks the Claude format and has credentials, to a registered
\* provider, that ask for a stream or for none, and those that no handler is
\* called for.
ConcurrentRequests ==
  { r \in Requests :
      /\ r.auth = "bearer"
      /\ ~r.envKey
      /\ \/ /\ r.method = "POST"
            /\ r.body \in {HelloBody, StreamBody}
            /\ r.source = "anthropic"
            /\ r.target \in RegisteredProviders
         \/ r.handler = "Documentation" /\ r.body = HelloBody }

Arrived(r) ==
  Locals(r, "start", <<>>, <<>>, NoUpstream, NoResponse, <<>>, <<>>, <<>>, <<>>, "none")

InitConcurrent ==
  LET Worker(r) ==
        CASE r.handler = "Conversion" -> {"LLMProxyService"}
          [] r.handler \in {"ClaudeToOpenRouter", "ClaudeProxy"} -> {"streaming"}
          [] r.handler \in {"ClaudeToOpenRouterPlain", "ClaudeProxyPlain"} -> {"plain"}
          [] OTHER -> {"LLMProxyService", "streaming", "plain"}
  IN
  /\ providers = RegisteredProviders
  /\ req \in ConcurrentRequests
  /\ peer \in { Arrived(r) : r \in { q \in ConcurrentRequests :
                                       Worker(q) \cap Worker(req) # {} } }
  /\ pc = "start"
  /\ steps = <<>>
  /\ sent = <<>>
  /\ up = NoUpstream
  /\ resp = NoResponse
  /\ received = <<>>
  /\ buffer = <<>>
  /\ events = <<>>
  /\ relayed = <<>>
  /\ outState = "none"

\* The switch with processStream's buffer held by the module, not by the
\* invocation: the request that goes on finds the buffer the other left.
SwitchSharingBuffer ==
  /\ peer # NoPeer
  /\ peer' = Locals(req, pc, steps, sent, up, resp, received, <<>>, events,
                    relayed, outState)
  /\ req' = peer.req
  /\ pc' = peer.pc
  /\ steps' = peer.steps
  /\ sent' = peer.sent
  /\ up' = peer.up
  /\ resp' = peer.resp
  /\ received' = peer.received
  /\ buffer' = buffer
  /\ events' = peer.events
  /\ relayed' = peer.relayed
  /\ outState' = peer.outState
  /\ UNCHANGED providers

\* The runtime leaves the handler at work at an await and goes on with the
\* other one: each finds its request and its locals as it left them.
Switch ==
  /\ peer # NoPeer
  /\ peer' = Locals(req, pc, steps, sent, up, resp, received, buffer, events,
                    relayed, outState)
  /\ req' = peer.req
  /\ pc' = peer.pc
  /\ steps' = peer.steps
  /\ sent' = peer.sent
  /\ up' = peer.up
  /\ resp' = peer.resp
  /\ received' = peer.received
  /\ buffer' = peer.buffer
  /\ events' = peer.events
  /\ relayed' = peer.relayed
  /\ outState' = peer.outState
  /\ UNCHANGED providers

NextConcurrent ==
  \/ Preflight
  \/ Documentation
  \/ ConversionReceive
  \/ ConversionRequestJson
  \/ ConversionTransformRequestOut
  \/ ConversionTransformRequestIn
  \/ ConversionRespond
  \/ StreamingRespond
  \/ ConversionResponseText
  \/ ConversionResponseJson
  \/ ConversionTransformResponseOut
  \/ ConversionTransformResponseIn
  \/ FetchFails
  \/ PassThroughRead
  \/ PassThroughEnd
  \/ PassThroughFail
  \/ PassThroughCancel
  \/ ClaudeToOpenRouterReceive
  \/ ClaudeToOpenRouterRequestJson
  \/ ClaudeToOpenRouterRespond
  \/ ClaudeToOpenRouterResponseText
  \/ ClaudeToOpenRouterResponseJson
  \/ ReframeRead
  \/ ReframeEnd
  \/ ReframeFail
  \/ ReframeCancel
  \/ ClaudeProxyReceive
  \/ ClaudeProxyRequestText
  \/ ClaudeProxyRespond
  \/ ClaudeProxyResponseText
  \/ RelayRead
  \/ RelayEnd
  \/ RelayFail
  \/ RelayCancel
  \/ ClaudeToOpenRouterPlainReceive
  \/ ClaudeToOpenRouterPlainRequestJson
  \/ ClaudeToOpenRouterPlainRespond
  \/ ClaudeToOpenRouterPlainResponseText
  \/ ClaudeToOpenRouterPlainResponseJson
  \/ ClaudeProxyPlainReceive
  \/ ClaudeProxyPlainRequestText
  \/ ClaudeProxyPlainRespond
  \/ ClaudeProxyPlainResponseText
  \/ Switch

ConcurrentSpec == InitConcurrent /\ [][NextConcurrent]_vars

\* ================================================================ claims

\* The newline-terminated lines of a body, in order.
CompleteLines(bytes) ==
  LET pieces == SplitLines(bytes) IN SubSeq(pieces, 1, Len(pieces) - 1)

\* A line is a terminal marker when it is a data line that carries the
\* sentinel or a chunk with a finish_reason.
IsTerminalLine(line) ==
  /\ StartsWithData(line)
  /\ LET data == Trim(Drop(line, 1)) IN
       \/ data = <<"X">>
       \/ JsonParses(data) /\ Decode(data[2]).finish_reason # ""

HasTerminalMarker(bytes) ==
  \E i \in 1..Len(CompleteLines(bytes)) : IsTerminalLine(CompleteLines(bytes)[i])

\* The finish_reason of the first chunk of a body that carries one ("" when
\* no chunk does).
RECURSIVE FirstFinishReason(_, _)
FirstFinishReason(lines, i) ==
  IF i > Len(lines) THEN ""
  ELSE LET data == IF StartsWithData(lines[i]) THEN Trim(Drop(lines[i], 1)) ELSE <<>> IN
       IF JsonParses(data) /\ Decode(data[2]).finish_reason # ""
       THEN Decode(data[2]).finish_reason
       ELSE FirstFinishReason(lines, i + 1)

UpstreamFinishReason(bytes) == FirstFinishReason(CompleteLines(bytes), 1)

\* message_start, content_block_start, N content_block_delta,
\* content_block_stop, message_delta, message_stop
IsFullLifecycle(evs) ==
  LET n == Len(evs) IN
  /\ n >= 5
  /\ evs[1].type = "message_start"
  /\ evs[2].type = "content_block_start"
  /\ \A i \in 3..(n - 3) : evs[i].type = "content_block_delta"
  /\ evs[n - 2].type = "content_block_stop"
  /\ evs[n - 1].type = "message_delta"
  /\ evs[n].type = "message_stop"

Reframing == req.handler = "ClaudeToOpenRouter" /\ resp.streamed

\* C1: in the stream of handleClaudeToOpenRouter no content_block_delta comes
\* before the first content_block_start, there is at most one message_stop,
\* and message_stop is the last event: nothing is sent after it.
C1_EventOrder ==
  Reframing =>
    /\ \A i \in 1..Len(events) :
         events[i].type = "content_block_delta" =>
           \E j \in 1..(i - 1) : events[j].type = "content_block_start"
    /\ Cardinality({ i \in 1..Len(events) : events[i].type = "message_stop" }) <= 1
    /\ \A i \in 1..Len(events) : events[i].type = "message_stop" => i = Len(events)

\* C1's case: a stream closed by a terminal marker that was followed, in the
\* upstream body, by further lines, after a fragment was sent.
C1_Witness ==
  /\ Reframing
  /\ outState = "closed"
  /\ \E i \in 1..Len(events) : events[i].type = "content_block_delta"
  /\ \E i \in 1..Len(CompleteLines(received)) :
       /\ IsTerminalLine(CompleteLines(received)[i])
       /\ i < Len(CompleteLines(received))

\* C2: once the re-framer has read a terminal marker (a chunk with a
\* finish_reason, or '[DONE]'), it has sent content_block_stop, message_delta
\* and message_stop and closed the output, and what it sent is one full
\* lifecycle.
C2_TerminalMarkerEndsStream ==
  (Reframing /\ HasTerminalMarker(received)) =>
    /\ outState = "closed"
    /\ IsFullLifecycle(events)

\* The reference table of stop reasons: total, with 'end_turn' for every
\* finish_reason it does not name.
ReferenceStopReason(finishReason) ==
  CASE finishReason = "length" -> "max_tokens"
    [] finishReason \in {"tool_calls", "function_call"} -> "tool_use"
    [] OTHER -> "end_turn"

\* C3: the message_delta of a closed stream carries the stop reason the
\* table gives for the upstream's finish_reason.
C3_StopReasonFollowsTable ==
  (Reframing /\ outState = "closed") =>
    \A i \in 1..Len(events) :
      events[i].type = "message_delta" =>
        events[i].stop_reason = ReferenceStopReason(UpstreamFinishReason(received))

\* C4: when a read of the upstream body fails, the output is errored, the
\* loop is over, and no content_block_stop, message_delta or message_stop has
\* been sent.
C4_ErrorSendsNoEnd ==
  (Reframing /\ outState = "errored") =>
    /\ pc = "done"
    /\ \A i \in 1..Len(events) :
         events[i].type \notin {"content_block_stop", "message_delta", "message_stop"}

\* C4's case: the read fails in the middle of the block, after a fragment.
C4_Witness ==
  /\ Reframing
  /\ outState = "errored"
  /\ \E i \in 1..Len(events) : events[i].type = "content_block_delta"
  /\ buffer # <<>>

\* C5: what a same-provider stream delivers to the client is what was read
\* from the upstream, symbol for symbol: at every moment a prefix of it, and
\* all of it once the stream is closed.
C5_SameProviderStreamIsVerbatim ==
  (resp.streamed /\ req.handler \in {"Conversion", "ClaudeProxy"}) =>
    /\ IsPrefix(relayed, received)
    /\ outState = "closed" => relayed = received

\* A request of one provider to the same provider that asks for no stream.
SameProviderPlain ==
  /\ req.handler \in {"Conversion", "ClaudeProxy", "ClaudeProxyPlain"}
  /\ req.source = req.target
  /\ req.body.stream # Some(TRUE)

\* C6: for a request to the same provider that asks for no stream, the body
\* sent upstream is the body the client sent and the body returned to the
\* client is the body the upstream sent, character for character.
C6_SameProviderBodiesIdentical ==
  SameProviderPlain =>
    /\ \A i \in 1..Len(sent) : sent[i] = req.body
    /\ (pc = "done" /\ up # NoUpstream) => resp.doc = up.doc

IsResponseTransform(step) == step.op \in {"transformResponseOut", "transformResponseIn"}

IsTransform(step) ==
  step.op \in {"transformRequestOut", "transformRequestIn",
               "transformResponseOut", "transformResponseIn"}

\* C7: a non-2xx answer of the upstream reaches the caller with the
\* upstream's status and the upstream's body as it was (all of it once the
\* body has been delivered), and no response transformer ran.
C7_UpstreamErrorIsVerbatim ==
  (pc = "done" /\ up # NoUpstream /\ ~IsOk(up.status)) =>
    /\ resp.status = up.status
    /\ IF resp.streamed
       THEN outState = "closed" => relayed = received
       ELSE resp.doc = up.doc
    /\ \A i \in 1..Len(steps) : ~IsResponseTransform(steps[i])

FetchCount == Cardinality({ i \in 1..Len(steps) : steps[i].op = "fetch" })

\* C8: handleConversionRequest / handleStreamingRequest never make a second
\* outbound call, and a request that was dispatched made exactly one, also
\* when the call failed or the answer was not 2xx.
C8_OneOutboundCall ==
  req.handler = "Conversion" =>
    /\ Len(sent) <= 1
    /\ FetchCount = Len(sent)
    /\ (pc \in {"fetching", "streaming"} \/ up # NoUpstream) => Len(sent) = 1
    /\ (pc = "done" /\ resp.doc = ErrorDoc("fetch failed")) => Len(sent) = 1

\* C8's case: the upstream answered with a non-2xx status and the handler
\* has returned.
C8_Witness ==
  /\ req.handler = "Conversion"
  /\ pc = "done"
  /\ up.status = 502
  /\ Len(sent) = 1

\* A request of the orchestrator whose source or target provider id is not
\* registered.
UnknownProvider ==
  /\ req.handler = "Conversion"
  /\ (req.source \notin RegisteredProviders \/ req.target \notin RegisteredProviders)

\* C9: a request with an unregistered source or target provider id runs no
\* transformer and makes no outbound call, and the orchestrator refuses it
\* with a client error: status 400, "Invalid provider combination", when it
\* is a POST.  (A CORS preflight never reaches the orchestrator: it is
\* answered before the path is read.)
C9_UnknownProviderRefused ==
  UnknownProvider =>
    /\ sent = <<>>
    /\ steps = <<>>
    /\ pc \in {"start", "done"}
    /\ pc = "done" =>
         IF req.method = "OPTIONS"
         THEN resp = JsonResponse(200, TextDoc(""))
         ELSE /\ resp.status \in 400..499
              /\ req.method = "POST" =>
                   resp = JsonResponse(400, ErrorDoc("Invalid provider combination"))

\* C9's case: a POST with a registered target and an unknown source, refused.
C9_Witness ==
  /\ req.handler = "Conversion"
  /\ req.method = "POST"
  /\ req.source \notin RegisteredProviders
  /\ req.target \in RegisteredProviders
  /\ pc = "done"

\* The steps of a cross-provider request without stream whose upstream
\* answered 2xx, and of one whose upstream answered otherwise.
CrossProviderSteps(r) ==
  << Step("transformRequestOut", r.source), Step("transformRequestIn", r.target),
     Step("fetch", r.target), Step("response.json", r.target),
     Step("transformResponseOut", r.target), Step("transformResponseIn", r.source) >>

CrossProviderErrorSteps(r) ==
  << Step("transformRequestOut", r.source), Step("transformRequestIn", r.target),
     Step("fetch", r.target), Step("response.text", r.target) >>

\* C10: a cross-provider request without stream takes its steps in the order
\* source.transformRequestOut, target.transformRequestIn, dispatch, receive,
\* target.transformResponseOut, source.transformResponseIn, and responds with
\* 200 only after all of them (a CORS preflight, answered before the path is
\* read, takes no step); the response transforms run only after a 2xx
\* answer; a same-provider request runs no transform step.
C10_StepOrder ==
  (req.handler = "Conversion" /\ req.body.stream # Some(TRUE)) =>
    IF req.source # req.target
    THEN /\ \/ IsPrefix(steps, CrossProviderSteps(req))
            \/ IsPrefix(steps, CrossProviderErrorSteps(req))
         /\ (\E i \in 1..Len(steps) : IsResponseTransform(steps[i])) => IsOk(up.status)
         /\ (pc = "done" /\ req.method # "OPTIONS" /\ resp.status = 200) =>
              steps = CrossProviderSteps(req)
    ELSE \A i \in 1..Len(steps) : ~IsTransform(steps[i])

\* C10's case: a cross-provider request answered with 200 after all six steps.
C10_Witness ==
  /\ req.handler = "Conversion"
  /\ req.source # req.target
  /\ req.body.stream # Some(TRUE)
  /\ pc = "done"
  /\ resp.status = 200
  /\ Len(steps) = 6

\* C11: a request that asks for a stream and whose upstream answered 2xx is
\* answered with a stream of framed events, also when source and target
\* differ, never with one buffered JSON body.
C11_StreamingIsFramedEvents ==
  (/\ req.handler \in {"Conversion", "ClaudeToOpenRouter", "ClaudeToOpenRouterPlain"}
   /\ req.body.stream = Some(TRUE)
   /\ up # NoUpstream
   /\ IsOk(up.status)
   /\ resp # NoResponse) => resp.streamed

\* C12: once the client has cancelled a streamed response, nothing more is
\* read from the upstream body.
C12_NoReadAfterCancel ==
  [][outState = "cancelled" => received' = received]_vars

\* The reference table of model names, in priority order.
ReferenceModelName(model) ==
  IF ~StartsWith(model, "claude-") THEN model
  ELSE IF StartsWith(model, "claude-opus-4") THEN "anthropic/claude-opus-4"
  ELSE IF StartsWith(model, "claude-sonnet-4") THEN "anthropic/claude-sonnet-4"
  ELSE IF StartsWith(model, "claude-3-7-sonnet") THEN "anthropic/claude-3.7-sonnet"
  ELSE IF StartsWith(model, "claude-3-5-sonnet") THEN "anthropic/claude-3.5-sonnet"
  ELSE IF StartsWith(model, "claude-3-5-haiku") THEN "anthropic/claude-3.5-haiku"
  ELSE IF StartsWith(model, "claude-3-opus") THEN "anthropic/claude-3-opus"
  ELSE IF StartsWith(model, "claude-3-sonnet") THEN "anthropic/claude-3-sonnet"
  ELSE IF StartsWith(model, "claude-3-haiku") THEN "anthropic/claude-3-haiku"
  ELSE "anthropic/" \o model

\* A request whose payload is made for the OpenAI-compatible target from a
\* Claude-format body, and which has been dispatched.
LoweredToOpenRouter ==
  /\ sent # <<>>
  /\ \/ req.handler \in {"ClaudeToOpenRouter", "ClaudeToOpenRouterPlain"}
     \/ req.handler = "Conversion" /\ req.source = "anthropic" /\ req.target = "openrouter"

\* C13: the model name sent to the OpenAI-compatible target is the one the
\* reference table gives for the request's model, with both mappers.
C13_MappersFollowTable ==
  LoweredToOpenRouter =>
    sent[1].model = Some(ReferenceModelName(req.body.model[1]))

\* A 200 answer made, without streaming, from an OpenAI-compatible body that
\* has a choice, for a client that speaks Claude.
ConvertedToClaude ==
  /\ pc = "done"
  /\ resp.status = 200
  /\ ~resp.streamed
  /\ \/ req.handler \in {"ClaudeToOpenRouter", "ClaudeToOpenRouterPlain"}
     \/ req.handler = "Conversion" /\ req.source = "anthropic" /\ req.target = "openrouter"
  /\ up.doc.kind = "object"
  /\ up.doc.choices # Absent
  /\ up.doc.choices[1] # <<>>

\* C14: the stop_reason of a converted response is what the stop-reason
\* table gives for the upstream's finish_reason.
C14_StopReasonIsMapped ==
  ConvertedToClaude =>
    resp.doc.stop_reason = Some(ReferenceStopReason(up.doc.choices[1][1].finish_reason))

\* A request lowered by OpenRouterTransformer.transformRequestIn and
\* dispatched.
LoweredByTransformer ==
  /\ req.handler = "Conversion"
  /\ req.source = "anthropic"
  /\ req.target = "openrouter"
  /\ sent # <<>>

ToolResultsAt(blocks) == { k \in 1..Len(blocks) : blocks[k].type = "tool_result" }

HasToolResult(message) ==
  message.content.isArr /\ ToolResultsAt(message.content.blocks) # {}

LastToolResultAt(blocks) ==
  CHOOSE k \in ToolResultsAt(blocks) : \A j \in ToolResultsAt(blocks) : j <= k

\* The text of the text blocks after position k, in order.
RECURSIVE TextAfter(_, _)
TextAfter(blocks, k) ==
  IF k >= Len(blocks) THEN ""
  ELSE (IF blocks[k + 1].type = "text" THEN blocks[k + 1].text ELSE "")
       \o TextAfter(blocks, k + 1)

\* C15 as stated: a message with a tool_result block is lowered to one
\* message {role: 'tool', tool_call_id, content} holding the tool_use_id and
\* the content of a tool_result block of the message.
C15_ToolResultLowered ==
  LoweredByTransformer =>
    \A i \in 1..Len(req.body.messages[1]) :
      LET message == req.body.messages[1][i] IN
      HasToolResult(message) =>
        \E k \in ToolResultsAt(message.content.blocks) :
          sent[1].messages[1][i] =
            [role |-> "tool",
             tool_call_id |-> Some(message.content.blocks[k].tool_use_id),
             content |-> Str(message.content.blocks[k].content)]

\* C15, amended: a message with a tool_result block is lowered to one
\* message {role: 'tool', tool_call_id, content} holding the tool_use_id of
\* its last tool_result block and, as content, that block's content followed
\* by the text of the text blocks after it.
C15_LastToolResultLowered ==
  LoweredByTransformer =>
    /\ Len(sent[1].messages[1]) = Len(req.body.messages[1])
    /\ \A i \in 1..Len(req.body.messages[1]) :
         LET message == req.body.messages[1][i] IN
         HasToolResult(message) =>
           LET blocks == message.content.blocks
               k      == LastToolResultAt(blocks)
           IN  sent[1].messages[1][i] =
                 [role |-> "tool",
                  tool_call_id |-> Some(blocks[k].tool_use_id),
                  content |-> Str(blocks[k].content \o TextAfter(blocks, k))]

\* C15's case: a request with the message [tool_result t1 '42'] has been
\* lowered and dispatched.
C15_Witness ==
  /\ LoweredByTransformer
  /\ \E i \in 1..Len(req.body.messages[1]) :
       /\ req.body.messages[1][i].content = Arr(<< ToolResultBlock("t1", "42") >>)
       /\ sent[1].messages[1][i] =
            [role |-> "tool", tool_call_id |-> Some("t1"), content |-> Str("42")]

\* `supplied, else the default`
SuppliedOr(x, d) == IF x = Absent THEN Some(d) ELSE x

\* C16: the payload made for the OpenAI-compatible target carries the
\* request's max_tokens and temperature whenever the request supplies them
\* (temperature 0 too) and 4096 and 0.7 only when it omits them, carries
\* tools exactly when the request supplies them, and carries every message
\* with a plain-string content as it was.
C16_RequestFieldsPreserved ==
  LoweredToOpenRouter =>
    /\ sent[1].max_tokens = SuppliedOr(req.body.max_tokens, DefaultMaxTokens)
    /\ sent[1].temperature = SuppliedOr(req.body.temperature, DefaultTemperature)
    /\ (sent[1].tools = Absent) <=> (req.body.tools = Absent)
    /\ req.body.messages # Absent =>
         \A i \in 1..Len(req.body.messages[1]) :
           ~req.body.messages[1][i].content.isArr =>
             sent[1].messages[1][i] = req.body.messages[1][i]

\* A cross-provider request without stream answered with 200, for an
\* upstream body that reports its usage.
CrossProviderAnswered ==
  /\ req.handler = "Conversion"
  /\ req.source # req.target
  /\ req.body.stream # Some(TRUE)
  /\ pc = "done"
  /\ resp.status = 200
  /\ up.doc.usage # Absent

\* The token counts of the upstream's usage, under whichever names it has.
UpstreamTokens(usage) ==
  [in  |-> IF usage.prompt_tokens # Absent THEN usage.prompt_tokens ELSE usage.input_tokens,
   out |-> IF usage.completion_tokens # Absent THEN usage.completion_tokens
           ELSE usage.output_tokens]

\* C17: the body returned for a cross-provider request has the shape of the
\* calling provider and that provider's usage names with the upstream's
\* counts: content blocks and input_tokens / output_tokens for anthropic,
\* choices and prompt_tokens / completion_tokens for openrouter.
C17_ResponseInSourceShape ==
  CrossProviderAnswered =>
    LET tokens == UpstreamTokens(up.doc.usage[1]) IN
    IF req.source = "anthropic"
    THEN /\ resp.doc.content # Absent
         /\ resp.doc.content[1].isArr
         /\ resp.doc.choices = Absent
         /\ resp.doc.usage = Some(Usage(Absent, Absent, tokens.in, tokens.out))
    ELSE /\ resp.doc.choices # Absent
         /\ resp.doc.usage = Some(Usage(tokens.in, tokens.out, Absent, Absent))

\* A cross-provider request whose body is no object or has no messages.
MalformedCrossProvider ==
  /\ req.handler = "Conversion"
  /\ req.source \in RegisteredProviders
  /\ req.target \in RegisteredProviders
  /\ req.source # req.target
  /\ req.body.kind # "object" \/ req.body.messages = Absent

\* C18: transformRequestOut fails on a body that is no object or has no
\* messages: it returns no unified request (so transformRequestIn is never
\* reached) and no outbound call is made.
C18_MalformedRequestRejected ==
  MalformedCrossProvider =>
    /\ sent = <<>>
    /\ \A i \in 1..Len(steps) : steps[i].op # "transformRequestIn"

\* A 2xx answer of the OpenAI-compatible upstream without any choice, read
\* as one document and lifted for a Claude-format client.
NoChoicesLifted ==
  /\ pc = "done"
  /\ ~resp.streamed
  /\ \/ req.handler \in {"ClaudeToOpenRouter", "ClaudeToOpenRouterPlain"}
     \/ req.handler = "Conversion" /\ req.source = "anthropic" /\ req.target = "openrouter"
  /\ IsOk(up.status)
  /\ up.hasBody
  /\ up.doc.kind = "object"
  /\ up.doc.choices = Absent \/ up.doc.choices[1] = <<>>

\* C19: an answer without choices is not lifted: the caller gets an error
\* response, never a 200 body.
C19_NoChoicesIsAnError ==
  NoChoicesLifted => (resp.status # 200 /\ resp.doc.error # Absent)

\* A data line whose payload JSON.parse rejects.
IsUndecodable(line) ==
  /\ StartsWithData(line)
  /\ Trim(Drop(line, 1)) # <<"X">>
  /\ ~JsonParses(Trim(Drop(line, 1)))

IsDecodable(line) == ~IsUndecodable(line)

\* The complete lines of a body without its undecodable data lines.
DecodableLines(bytes) == SelectSeq(CompleteLines(bytes), IsDecodable)

\* C20: an undecodable data line is skipped: what the re-framer has sent is
\* what the other lines of the body produce without it, and the stream is
\* closed exactly when those lines close it.
C20_UndecodableLineSkipped ==
  (Reframing /\ outState # "cancelled") =>
    LET reference == ProcessLines(DecodableLines(received), 1) IN
    /\ events = StartEvents \o reference.sent
    /\ (outState = "closed") <=> reference.closed
    /\ outState = "errored" => pc = "done"

\* C20's case: a fragment, then an undecodable data line, then a fragment
\* that was sent, with the stream still open.
C20_Witness ==
  /\ Reframing
  /\ outState = "open"
  /\ LET lines == CompleteLines(received) IN
     \E i, j, k \in 1..Len(lines) :
       /\ i < j /\ j < k
       /\ lines[i] = <<"D", "{", "a">>
       /\ IsUndecodable(lines[j])
       /\ lines[k] = <<"D", "{", "b">>
  /\ events[Len(events)] = Event("content_block_delta", "b", "")

\* C21: OpenRouterTransformer.transformRequestIn lowers each tool of the
\* request to {type: 'function', function: {name, description, parameters}},
\* in the same order and number; a request without tools gives a payload
\* without a tools field, and one whose unified form has no top_p gives a
\* payload without top_p.
C21_ToolsLowered ==
  LoweredByTransformer =>
    /\ IF req.body.tools = Absent
       THEN sent[1].tools = Absent
       ELSE /\ sent[1].tools # Absent
            /\ Len(sent[1].tools[1]) = Len(req.body.tools[1])
            /\ \A i \in 1..Len(req.body.tools[1]) :
                 LET tool == req.body.tools[1][i] IN
                 sent[1].tools[1][i] =
                   [type |-> "function",
                    function |-> [name |-> tool.name,
                                  description |-> tool.description,
                                  parameters |-> tool.input_schema]]
    /\ transformRequestOut(req.body).value.top_p = Absent => sent[1].top_p = Absent

\* C21's case: a request without tools and without top_p has been lowered
\* and dispatched.
C21_Witness ==
  /\ LoweredByTransformer
  /\ req.body.tools = Absent
  /\ req.body.top_p = Absent
  /\ sent[1].tools = Absent
  /\ sent[1].messages # Absent

\* The request at work, with its locals, as a record like peer.
AtWork ==
  Locals(req, pc, steps, sent, up, resp, received, buffer, events, relayed, outState)

\* The payload a request dispatches, made from its own body.
OwnPayload(r) ==
  CASE r.handler = "Conversion" ->
         IF PassesThrough(r) THEN JsonRoundTrip(r.body)
         ELSE JsonRoundTrip(TransformedRequest(r).value)
    [] r.handler \in {"ClaudeToOpenRouter", "ClaudeToOpenRouterPlain"} ->
         ClaudeToOpenRouterRequest(r.body).value
    [] OTHER -> r.body

\* The response a request gets once its upstream has answered with u, made
\* from its own body and from u.
OwnAnswer(r, u) ==
  LET json == ResponseJson(u) IN
  CASE r.handler = "ClaudeProxy" ->
         IF r.body.kind = "null" THEN ServerError("TypeError")
         ELSE IF r.body.stream = Some(TRUE) THEN NewResponse(u.status, NoDoc, TRUE)
         ELSE NewResponse(u.status, u.doc, FALSE)
    [] r.handler = "ClaudeProxyPlain" -> NewResponse(u.status, u.doc, FALSE)
    [] r.handler = "Conversion" /\ r.body.stream = Some(TRUE) /\ PassesThrough(r) ->
         IF u.hasBody THEN NewResponse(u.status, NoDoc, TRUE)
         ELSE StreamResponse(u.status)
    [] OTHER ->
         IF ~IsOk(u.status) THEN NewResponse(u.status, u.doc, FALSE)
         ELSE IF r.handler = "ClaudeToOpenRouter" /\ r.body.stream = Some(TRUE)
         THEN StreamResponse(200)
         ELSE IF json.threw # "" THEN ServerError(json.threw)
         ELSE IF r.handler # "Conversion"
         THEN LET claude == convertOpenAIToClaude(json.value, r.body) IN
              IF claude.threw # "" THEN ServerError(claude.threw)
              ELSE JsonResponse(200, StringifyDoc(claude.value))
         ELSE IF PassesThrough(r) THEN JsonResponse(200, StringifyDoc(json.value))
         ELSE IF UnifiedResponse(r, u).threw # ""
         THEN ServerError(UnifiedResponse(r, u).threw)
         ELSE IF FinalResponse(r, u).threw # ""
         THEN ServerError(FinalResponse(r, u).threw)
         ELSE JsonResponse(200, StringifyDoc(FinalResponse(r, u).value))

\* The relay of handleClaudeProxy may have sent `out` for the bytes `rest`:
\* there is a way of cutting them into chunks, after a symbol or inside a
\* marker, such that `out` is what it sends for each chunk, one after the
\* other.
RECURSIVE RelayedFrom(_, _)
RelayedFrom(rest, out) ==
  LET Then(chunk, left) ==
        LET o == RelayChunk(chunk) IN
        /\ Len(o) <= Len(out)
        /\ SubSeq(out, 1, Len(o)) = o
        /\ RelayedFrom(left, Drop(out, Len(o)))
  IN
  IF rest = <<>> THEN out = <<>>
  ELSE \/ \E k \in 1..Len(rest) : Then(SubSeq(rest, 1, k), Drop(rest, k))
       \/ \E k \in { i \in 1..Len(rest) : rest[i] \in Markers } :
            Then(SubSeq(rest, 1, k - 1) \o << rest[k] \o "<" >>,
                 << ">" \o rest[k] >> \o Drop(rest, k))

\* What the locals of one request hold comes from its own request and its
\* own upstream response: the payload it sent is made from its body, its
\* response from its body and its upstream's answer; the re-framer's buffer
\* is the unfinished line of the body it read, its events and its lifecycle
\* position are those of the lines it read; a pass-through has delivered
\* what it read and a relay what it makes of the chunks it read.
OwnBodyOnly(s) ==
  /\ s.sent \in { <<>>, << OwnPayload(s.req) >> }
  /\ (s.up # NoUpstream /\ s.resp # NoResponse) => s.resp = OwnAnswer(s.req, s.up)
  /\ (s.req.handler = "ClaudeToOpenRouter" /\ s.resp.streamed) =>
       /\ s.buffer = SplitLines(s.received)[Len(SplitLines(s.received))]
       /\ s.outState # "cancelled" =>
            LET reference == ProcessLines(CompleteLines(s.received), 1) IN
            /\ s.events = StartEvents \o reference.sent
            /\ (s.outState = "closed") <=> reference.closed
  /\ (s.req.handler = "Conversion" /\ s.resp.streamed) => s.relayed = s.received
  /\ (s.req.handler = "ClaudeProxy" /\ s.resp.streamed /\ s.outState # "cancelled") =>
       RelayedFrom(s.received, s.relayed)
  /\ ~s.resp.streamed => (s.received = <<>> /\ s.events = <<>> /\ s.relayed = <<>>)

\* C22: with two requests of one worker handled at a time, in any
\* interleaving of their handlers, the tables are as the constructor made
\* them and what each request has sent, its response, its re-framer's
\* buffer, events and lifecycle position, and what it has relayed are those
\* that its own request and its own upstream response give.
C22_RequestsIndependent ==
  /\ providers = RegisteredProviders
  /\ OwnBodyOnly(AtWork)
  /\ OwnBodyOnly(peer)

\* C22's case: two re-framed streams at a time; one has read a line and
\* sent its fragment while the other, which has sent its first events, waits
\* at its read.
C22_Witness ==
  /\ req.handler = "ClaudeToOpenRouter"
  /\ peer.req = req
  /\ received = <<"D", "{", "a", "N">>
  /\ events = StartEvents \o << Event("content_block_delta", "a", "") >>
  /\ peer.pc = "streaming"
  /\ peer.outState = "open"
  /\ peer.events = StartEvents

\* C23: once processStream is over, because the upstream body ended (with or
\* without a terminal marker before its end) or a read failed, the output
\* stream is closed or errored: it is not left open.
C23_StreamTerminates ==
  (Reframing /\ pc = "done" /\ outState # "cancelled") =>
    outState \in {"closed", "errored"}

\* The content fragment a line carries ("" when it carries none).
FragmentOf(line) ==
  LET data == IF StartsWithData(line) THEN Trim(Drop(line, 1)) ELSE <<>> IN
  IF JsonParses(data) /\ Decode(data[2]).choices > 0 THEN Decode(data[2]).content ELSE ""

HasFragment(bytes) ==
  \E i \in 1..Len(CompleteLines(bytes)) : FragmentOf(CompleteLines(bytes)[i]) # ""

\* C24: as long as no content fragment has been read from the upstream the
\* re-framer has sent no event: message_start and content_block_start come
\* with the first fragment, and an upstream that fails or ends before any
\* fragment produces neither.
C24_NoEventBeforeFirstFragment ==
  (Reframing /\ ~HasFragment(received)) => events = <<>>

\* The content fragments of the lines of a body, in order, up to and with
\* the first terminal marker.
RECURSIVE FragmentsUntilTerminal(_, _)
FragmentsUntilTerminal(lines, i) ==
  IF i > Len(lines) THEN <<>>
  ELSE (IF FragmentOf(lines[i]) # "" THEN << FragmentOf(lines[i]) >> ELSE <<>>)
       \o (IF IsTerminalLine(lines[i]) THEN <<>>
           ELSE FragmentsUntilTerminal(lines, i + 1))

IsDelta(event) == event.type = "content_block_delta"

\* The texts of the content_block_delta events, in order.
DeltaTexts(evs) ==
  LET deltas == SelectSeq(evs, IsDelta) IN [i \in 1..Len(deltas) |-> deltas[i].text]

\* C25: when the upstream body has been read to its end or to its terminal
\* marker, the content_block_delta events carry the content fragments of the
\* body up to the terminal marker, one event for each fragment, in the
\* body's order; the fragment of a chunk that also has a finish_reason and
\* the fragment of a last line without newline are among them.
C25_EveryFragmentIsOneDelta ==
  (Reframing /\ pc = "done" /\ outState \in {"open", "closed"}) =>
    DeltaTexts(events) = FragmentsUntilTerminal(SplitLines(received), 1)

\* C26: what the re-framer has sent is given by the bytes it has read, not
\* by the chunks they came in: the events are those of one pass over the
\* newline-terminated lines of all the bytes read, the stream is closed
\* exactly when that pass closes it, and the bytes after the last newline
\* wait in the buffer.
C26_ChunkingDoesNotMatter ==
  (Reframing /\ outState # "cancelled") =>
    LET onePass == ProcessChunk(<<>>, received) IN
    /\ events = StartEvents \o onePass.sent
    /\ (outState = "closed") <=> onePass.closed
    /\ buffer = onePass.buffer

\* C26's case: the bytes came in more than one chunk, a fragment has been
\* sent and the last chunk ended inside a 'data: ' line, whose beginning
\* waits in the buffer.
C26_Witness ==
  /\ Reframing
  /\ outState = "open"
  /\ Len(received) > MaxChunk
  /\ buffer = <<"D", "{">>
  /\ \E i \in 1..Len(events) : events[i] = Event("content_block_delta", "b", "")

IsFunctionCall(toolCall) == toolCall.type = "function"

IsToolUse(block) == block.type = "tool_use"

\* C27: when the first choice of the upstream's answer carries function
\* tool calls, the Claude-shaped response has one tool_use block {id, name,
\* input} for each of them, in their order, after the text block if there
\* is one, with both converters.
C27_ToolCallsBecomeToolUse ==
  ConvertedToClaude =>
    LET choice == up.doc.choices[1][1]
        calls  == SelectSeq(choice.tool_calls, IsFunctionCall)
        blocks == resp.doc.content[1].blocks
        uses   == SelectSeq(blocks, IsToolUse)
    IN  calls # <<>> =>
          /\ Len(uses) = Len(calls)
          /\ \A i \in 1..Len(calls) :
               /\ uses[i].id = calls[i].id
               /\ uses[i].name = calls[i].name
               /\ uses[i].input = ToolInput(calls[i].arguments)
          /\ \A i \in 1..Len(blocks) : IsToolUse(blocks[i]) => i > Len(blocks) - Len(uses)
          /\ choice.content # "" => blocks[1] = RespTextBlock(Str(choice.content))

\* C28: every message of the payload OpenRouterTransformer.transformRequestIn
\* makes has a plain string as content, whatever blocks the request's
\* message had.
C28_LoweredContentIsString ==
  LoweredByTransformer =>
    \A i \in 1..Len(sent[1].messages[1]) : ~sent[1].messages[1][i].content.isArr

\* C29: no tool result is lost in the lowering: the tool_use_id of every
\* tool_result block of the request is the tool_call_id of a message with
\* the role 'tool' in the payload.
C29_NoToolResultLost ==
  LoweredByTransformer =>
    \A i \in 1..Len(req.body.messages[1]) :
      LET message == req.body.messages[1][i] IN
      message.content.isArr =>
        \A k \in ToolResultsAt(message.content.blocks) :
          \E j \in 1..Len(sent[1].messages[1]) :
            /\ sent[1].messages[1][j].role = "tool"
            /\ sent[1].messages[1][j].tool_call_id =
                 Some(message.content.blocks[k].tool_use_id)

\* C30: in the cross-provider branch of handleStreamingRequest, a body that
\* is read as one JSON document belongs to a request that was dispatched
\* with stream = false: a payload sent with stream = true is never followed
\* by response.json().
C30_BufferedOnlyWithoutStream ==
  (/\ req.handler = "Conversion"
   /\ req.source # req.target
   /\ req.body.kind = "object"
   /\ req.body.stream = Some(TRUE)
   /\ \E i \in 1..Len(steps) : steps[i].op = "response.json") =>
    sent[Len(sent)].stream # Some(TRUE)

\* C31: a top_p the client supplies in a cross-provider request is in the
\* payload sent to the target, with its value: neither the lifting nor the
\* lowering drops it.
C31_TopPReachesTarget ==
  (/\ sent # <<>>
   /\ \/ req.handler \in {"ClaudeToOpenRouter", "ClaudeToOpenRouterPlain"}
      \/ req.handler = "Conversion" /\ req.source # req.target
   /\ req.body.top_p # Absent) =>
    sent[1].top_p = req.body.top_p

====
